---- MODULE Spec2Model ----
(***************************************************************************)
(* A model of the CORO gateway (juanibianchi/coro, backend/):              *)
(*   - services/rate_limiter.py : the tiered rate limiter, its in-process  *)
(*     sliding-window backend, its Redis fixed-window backend, the premium *)
(*     session store and the enforce_rate_limit dependency;                *)
(*   - routers/chat.py : the /chat dispatcher and _generate_for_model.     *)
(*                                                                         *)
(* Time is counted in ticks, TicksPerSec ticks to the second, so that the  *)
(* float arithmetic of the source (time.monotonic(), time.time()) keeps    *)
(* its sub-second cases.  Both clocks read the one variable now.           *)
(*                                                                         *)
(* The handlers run on one asyncio event loop: a coroutine runs without    *)
(* interruption until an await that really suspends.  asyncio.Lock.acquire *)
(* returns at once when the lock is free, and no critical section of the   *)
(* in-process backends holds an await, so a call of                        *)
(* InMemoryLimiterBackend.acquire or of PremiumSessionStore.add/exists is  *)
(* one step.  A Redis command is a suspension point: the Redis backend is  *)
(* modelled command by command.                                            *)
(***************************************************************************)
EXTENDS Integers, Sequences, FiniteSets, TLC

(***************************************************************************)
(* Bounds of the model.                                                    *)
(***************************************************************************)
TicksPerSec == 2     \* clock resolution
MaxTime == 4         \* the clock stops at this tick
MaxCalls == 3        \* direct calls of RateLimiter.check in one behaviour
MaxRequests == 2     \* requests through enforce_rate_limit in one behaviour
ScenarioChecks == 5  \* checks made in the sequential-check scenario
SessionTtlSec == 1   \* the configured PREMIUM_SESSION_TTL, in seconds
MaxModels == 3       \* models requested in one chat call
MaxChatTime == 1     \* ticks of the clock during one chat call
MaxFragments == 2    \* fragments of a failure message
MaxConcurrent == 2
MaxFindings == 2   \* Cerebras requests in flight at once

(***************************************************************************)
(* Python values.                                                          *)
(***************************************************************************)
None == "<None>"

\* bool(x) of an Optional[str]
Truthy(x) == x # None /\ x # ""

\* a or b
PyOr(a, b) == IF Truthy(a) THEN a ELSE b

\* int(num / den) of a float: truncation toward zero
PyInt(num, den) == IF num >= 0 THEN num \div den ELSE -((-num) \div den)

Max(a, b) == IF a >= b THEN a ELSE b

\* dict: d[k] = v
DictSet(d, k, v) == [x \in (DOMAIN d) \cup {k} |-> IF x = k THEN v ELSE d[x]]

\* dict: d.pop(k, None)
DictPop(d, k) == [x \in (DOMAIN d) \ {k} |-> d[x]]

EmptyDict == [x \in {} |-> 0]

(***************************************************************************)
(* Configuration (backend/config.py).  The limits and windows come from    *)
(* the environment; the model runs a small configuration.                  *)
(***************************************************************************)
Tiers == {"anonymous", "authenticated", "premium"}

RATE_LIMITS ==
    [anonymous     |-> [limit |-> 1, window |-> 1],
     authenticated |-> [limit |-> 2, window |-> 1],
     premium       |-> [limit |-> 2, window |-> 2]]

\* the configuration of the sequential-check scenario: limit 3, window 60 s
SCENARIO_LIMITS ==
    [anonymous     |-> [limit |-> 3, window |-> 60],
     authenticated |-> [limit |-> 3, window |-> 60],
     premium       |-> [limit |-> 3, window |-> 60]]

ApiTokens == {None, "s3cret"}

\* the inputs of the model
Tokens == {"", "tokA"}                  \* session tokens handed to the store
UserIds == {"u1", "u2"}
AuthHeaders == {None, "Bearer s3cret", "bearer s3cret", "Bearer wrong"}
SessionHeaders == {None, "tokA"}        \* x-coro-session
DeviceHeaders == {None, "devA"}         \* x-coro-device
Hosts == {"", "10.0.0.1"}               \* request.client.host
Requests ==
    [authorization : AuthHeaders, session : SessionHeaders,
     device : DeviceHeaders, host : Hosts]
Procs == {"p1", "p2"}                   \* concurrent callers of the Redis backend
RedisTiers == {"anonymous", "authenticated"}
RedisKeys == {"k1"}
CheckKeys == {"k1", "k2"}               \* identities given to check directly
CheckTiers == {"anonymous", "premium", "gold"}

VARIABLES
    now,            \* the clock, in ticks
    limits,         \* RateLimiter.limits
    api_token,      \* config.CORO_API_TOKEN
    redis_url,      \* config.REDIS_URL
    rate_limiter,   \* the module global: None or "RateLimiter"
    initialized,    \* RateLimiter.initialized
    backend,        \* RateLimiter.backend: None, "memory" or "redis"
    buckets,        \* InMemoryLimiterBackend._buckets: key -> timestamps
    store,          \* RateLimiter.sessions: None, "memory" or "redis"
    sessions,       \* PremiumSessionStore._sessions: token -> (user_id, expires_at)
    calls,          \* number of limiter operations made so far
    admitted,       \* history: the admitted acquisitions of the current backend
    last,           \* history: the last operation and its outcome
    checkLog,       \* history: the checks of the sequential-check scenario
    addedAt         \* history: token -> time of its last add to the current store

coreVars == <<now, limits, api_token, redis_url, rate_limiter, initialized, backend,
              buckets, store, sessions, calls, admitted, last, checkLog, addedAt>>

VARIABLES
    rkeys,          \* the Redis server: key -> (count, has_ttl, expire_at)
    pc,             \* per caller: the Redis command its acquire waits for
    local,          \* per caller: key, limit, window and counter of its acquire
    rhist           \* history: key -> admissions in the counter's lifetime

redisVars == <<rkeys, pc, local, rhist>>

limiterVars == <<limits, api_token, redis_url, rate_limiter, initialized,
                 backend, buckets, store, sessions, calls, admitted, last,
                 checkLog, addedAt>>

VARIABLES
    api_keys,       \* provider -> whether a key is configured or supplied
    chat_pc,        \* chat(): "idle", "gather" (awaiting the tasks) or "done"
    req_models,     \* request.models
    start_time,     \* start_time of chat()
    tasks,          \* the _generate_for_model tasks, in the order of creation
    response,       \* the HTTP response of chat()
    upstream,       \* history: the models whose provider service was called
    completion      \* history: the task indexes in the order of completion

chatVars == <<api_keys, chat_pc, req_models, start_time, tasks, response,
              upstream, completion>>

VARIABLES
    retry_pc,       \* with_retry: "idle", "attempt", "sleep", "returned", "raised"
    attempt_log,    \* history: how each attempt of the request ended
    retry_waits,    \* history: the seconds slept before each re-attempt
    retry_result,   \* what the wrapped call returned or raised
    client_call,    \* a generate() call of a provider client and its result
    error_msg,      \* the failure message given to categorize_error
    error_kind      \* the ErrorCode categorize_error returned for it

clientVars == <<retry_pc, attempt_log, retry_waits, retry_result, client_call,
                error_msg, error_kind>>

VARIABLES
    app_state,      \* the FastAPI app: "created", "running" or "stopped"
    http_client,    \* utils.performance._http_client
    http_created,   \* history: the shared clients created so far
    own_transports, \* history: the clients open that a service made itself
    last_post,      \* history: the last HTTP request of a provider service
    auth_limiter,   \* the name rate_limiter of routers/auth.py
    apple_skip,     \* _apple_verifier.skip_verification
    apple_cache,    \* _apple_verifier._cached_keys, _cache_expiry
    auth_response,  \* the HTTP response of POST /auth/apple
    auth_log        \* history: the responses to failed verifications

appVars == <<app_state, http_client, http_created, own_transports, last_post,
             auth_limiter, apple_skip, apple_cache, auth_response, auth_log>>

vars == <<coreVars, redisVars, chatVars, clientVars, appVars>>

(***************************************************************************)
(* utils/performance.py: the shared HTTP client, and the clients the       *)
(* services make themselves.                                               *)
(***************************************************************************)
\* _http_client is None
NoClient == [some |-> FALSE, id |-> 0, is_closed |-> FALSE]

\* nothing posted yet
NoPost == [provider |-> None, transport |-> None, id |-> 0]

\* POST /auth/apple not answered yet
NoAuthResponse ==
    [status |-> 0, detail |-> None, session_token |-> None, expires_in |-> 0]

\* get_http_client(): the global client, made anew when it is None or closed
GetHttpClient ==
    IF ~http_client.some \/ http_client.is_closed
    THEN [client |-> [some |-> TRUE, id |-> http_created + 1,
                      is_closed |-> FALSE],
          created |-> http_created + 1]
    ELSE [client |-> http_client, created |-> http_created]

\* client = get_http_client(); await client.post(...)
SharedPost(provider) ==
    /\ http_client' = GetHttpClient.client
    /\ http_created' = GetHttpClient.created
    /\ last_post' = [provider |-> provider, transport |-> "shared",
                     id |-> GetHttpClient.client.id]

\* async with httpx.AsyncClient(timeout=30) as client: await client.post(...)
OwnPost(provider) ==
    last_post' = [provider |-> provider, transport |-> "own", id |-> 0]

(***************************************************************************)
(* InMemoryLimiterBackend.acquire                                          *)
(***************************************************************************)
\* the loop with <, which keeps a timestamp exactly one window old
RECURSIVE PruneHead_Strict(_, _)
PruneHead_Strict(bucket, threshold) ==
    IF bucket # <<>> /\ Head(bucket) < threshold
    THEN PruneHead_Strict(Tail(bucket), threshold)
    ELSE bucket

\* while bucket and bucket[0] <= threshold: bucket.pop(0)
RECURSIVE PruneHead(_, _)
PruneHead(bucket, threshold) ==
    IF bucket # <<>> /\ Head(bucket) <= threshold
    THEN PruneHead(Tail(bucket), threshold)
    ELSE bucket

\* the comparison off by one: a full bucket still admits
BucketFull_OffByOne(bucket, limit) == Len(bucket) > limit

\* if len(bucket) >= limit
BucketFull(bucket, limit) == Len(bucket) >= limit

\* the hint truncated to whole seconds, the added second left out
RetryAfter_Truncated(bucket, window, t) ==
    PyInt(Head(bucket) + window * TicksPerSec - t, TicksPerSec)

\* retry_after = int(bucket[0] + window - now) + 1
RetryAfter(bucket, window, t) ==
    PyInt(Head(bucket) + window * TicksPerSec - t, TicksPerSec) + 1

\* the rejected call recorded in the bucket like an admitted one
InMemoryAcquire_CountsRejected(bs, key, limit, window, t) ==
    LET threshold == t - window * TicksPerSec
        bucket    == IF key \in DOMAIN bs THEN bs[key] ELSE <<>>
        pruned    == PruneHead(bucket, threshold)
    IN  [buckets |-> DictSet(bs, key, Append(pruned, t)),
         ok |-> ~BucketFull(pruned, limit),
         retry_after |-> IF BucketFull(pruned, limit)
                         THEN RetryAfter(pruned, window, t) ELSE 0]

\* The outcome of acquire(key, limit, window) at time t on the dict bs:
\* the dict afterwards, whether the call returned (ok) or raised
\* RateLimitExceeded, and the retry_after of the exception.
InMemoryAcquire(bs, key, limit, window, t) ==
    LET threshold == t - window * TicksPerSec
        bucket    == IF key \in DOMAIN bs THEN bs[key] ELSE <<>>
        pruned    == PruneHead(bucket, threshold)
    IN  IF BucketFull(pruned, limit)
        THEN [buckets |-> DictSet(bs, key, pruned), ok |-> FALSE,
              retry_after |-> RetryAfter(pruned, window, t)]
        ELSE [buckets |-> DictSet(bs, key, Append(pruned, t)), ok |-> TRUE,
              retry_after |-> 0]

(***************************************************************************)
(* PremiumSessionStore (in-process)                                        *)
(***************************************************************************)
\* the expiry set to the time of the add, the lifetime forgotten
SessionsAdd_NoTtl(ss, token, user_id, t) ==
    DictSet(ss, token, [user_id |-> user_id, expires_at |-> t])

\* add: self._sessions[token] = (user_id, time.time() + self.ttl)
SessionsAdd(ss, token, user_id, t) ==
    DictSet(ss, token, [user_id |-> user_id,
                        expires_at |-> t + SessionTtlSec * TicksPerSec])

\* if expires_at < time.time()
SessionExpired(expires_at, t) == expires_at < t

\* exists: the answer and the dict afterwards (an expired entry is popped)
SessionsExists(ss, token, t) ==
    IF ~Truthy(token) THEN [found |-> FALSE, sessions |-> ss]
    ELSE IF token \notin DOMAIN ss THEN [found |-> FALSE, sessions |-> ss]
    ELSE IF SessionExpired(ss[token].expires_at, t)
         THEN [found |-> FALSE, sessions |-> DictPop(ss, token)]
         ELSE [found |-> TRUE, sessions |-> ss]

(***************************************************************************)
(* RateLimiter                                                             *)
(***************************************************************************)
\* tier_config = self.limits.get(tier) or self.limits.get("anonymous")
TierConfig(tier) ==
    IF tier \in DOMAIN limits THEN limits[tier] ELSE limits["anonymous"]

\* bucket_key = f"coro:rl:{tier}:{key}"
BucketKey(tier, key) == "coro:rl:" \o tier \o ":" \o key

NoAcquire ==
    [called |-> FALSE, key |-> None, limit |-> 0, window |-> 0,
     ok |-> TRUE, retry_after |-> 0]

\* RateLimiter.check(key, tier) on the in-process backend: what the call
\* does (acq), how it ends (outcome) and the buckets afterwards.
RateLimiterCheck(key, tier) ==
    IF backend = None
    THEN [outcome |-> "RuntimeError", acq |-> NoAcquire, buckets |-> buckets]
    ELSE LET cfg  == TierConfig(tier)
             bkey == BucketKey(tier, key)
             r    == InMemoryAcquire(buckets, bkey, cfg.limit, cfg.window, now)
         IN  [outcome |-> IF r.ok THEN "allow" ELSE "RateLimitExceeded",
              acq |-> [called |-> TRUE, key |-> bkey, limit |-> cfg.limit,
                       window |-> cfg.window, ok |-> r.ok,
                       retry_after |-> r.retry_after],
              buckets |-> r.buckets]

\* RateLimiter.is_premium(token)
IsPremium(token) ==
    IF store = None \/ ~Truthy(token)
    THEN [found |-> FALSE, sessions |-> sessions]
    ELSE SessionsExists(sessions, token, now)

\* the history of admitted acquisitions after a call of acquire
Admit(acq) ==
    IF acq.called /\ acq.ok
    THEN Append(admitted, [key |-> acq.key, at |-> now,
                           limit |-> acq.limit, window |-> acq.window])
    ELSE admitted

(***************************************************************************)
(* enforce_rate_limit                                                      *)
(***************************************************************************)
\* auth_header == f"Bearer {config.CORO_API_TOKEN}"
MasterBypass(req) ==
    /\ Truthy(api_token)
    /\ Truthy(req.authorization)
    /\ req.authorization = "Bearer " \o api_token

\* the device header looked at before the premium session
ResolveTier_DeviceFirst(req, premium) ==
    IF Truthy(req.device) THEN "authenticated"
    ELSE IF Truthy(req.session) /\ premium THEN "premium"
    ELSE "anonymous"

\* tier = "anonymous"; if session_token and is_premium: "premium";
\* elif device_id: "authenticated"
ResolveTier(req, premium) ==
    IF Truthy(req.session) /\ premium THEN "premium"
    ELSE IF Truthy(req.device) THEN "authenticated"
    ELSE "anonymous"

\* the device identifier taken before the session token
ResolveIdentifier_DeviceFirst(req) ==
    PyOr(req.device, PyOr(req.session, PyOr(req.host, "anonymous")))

\* identifier = session_token or device_id or request.client.host or "anonymous"
ResolveIdentifier(req) ==
    PyOr(req.session, PyOr(req.device, PyOr(req.host, "anonymous")))

\* the fail-open guard left out
LimiterReady_NoGuard == TRUE

\* not (rate_limiter is None or not rate_limiter.initialized)
LimiterReady == rate_limiter # None /\ initialized

\* The whole dependency for one request on the in-process backend.
EnforceResult(req) ==
    IF ~LimiterReady
    THEN [outcome |-> "allow", checked |-> FALSE, tier |-> None,
          identifier |-> None, acq |-> NoAcquire,
          buckets |-> buckets, sessions |-> sessions]
    ELSE IF MasterBypass(req)
    THEN [outcome |-> "allow", checked |-> FALSE, tier |-> None,
          identifier |-> None, acq |-> NoAcquire,
          buckets |-> buckets, sessions |-> sessions]
    ELSE LET prem == IF Truthy(req.session) THEN IsPremium(req.session)
                     ELSE [found |-> FALSE, sessions |-> sessions]
             tier == ResolveTier(req, prem.found)
             identifier == ResolveIdentifier(req)
             r == RateLimiterCheck(identifier, tier)
         IN  [outcome |-> IF r.outcome = "RateLimitExceeded" THEN "429"
                          ELSE r.outcome,
              checked |-> TRUE, tier |-> tier, identifier |-> identifier,
              acq |-> r.acq, buckets |-> r.buckets,
              sessions |-> prem.sessions]

(***************************************************************************)
(* The operations of the admission layer (in-process backend).             *)
(***************************************************************************)
\* time passes
AdvanceClock ==
    /\ now < MaxTime
    /\ now' = now + 1
    /\ last' = [op |-> "tick"]
    /\ UNCHANGED <<limits, api_token, redis_url, rate_limiter, initialized,
                   backend, buckets, store, sessions, calls, admitted, checkLog, addedAt>>
    /\ UNCHANGED <<redisVars, chatVars, clientVars, appVars>>

\* redis_client: Redis.from_url(self.redis_url) if the url is set and the
\* ping succeeds, else None
RedisClient(ping_ok) == IF Truthy(redis_url) /\ ping_ok THEN "redis" ELSE None

\* RedisLimiterBackend(redis_client) if redis_client else InMemoryLimiterBackend()
NewBackend(redis_client) == IF redis_client # None THEN "redis" ELSE "memory"

\* the body of RateLimiter.initialize() of a limiter not yet initialized
DoInitialize(ping_ok) ==
    /\ initialized' = TRUE
    /\ backend' = NewBackend(RedisClient(ping_ok))
    /\ buckets' = EmptyDict
    /\ store' = NewBackend(RedisClient(ping_ok))
    /\ sessions' = EmptyDict
    /\ admitted' = <<>>
    /\ addedAt' = EmptyDict

\* init_rate_limiter(config), at startup
InitRateLimiter ==
    /\ rate_limiter = None
    /\ rate_limiter' = "RateLimiter"
    /\ \E ping_ok \in BOOLEAN : DoInitialize(ping_ok)
    /\ last' = [op |-> "init_rate_limiter"]
    /\ UNCHANGED <<now, limits, api_token, redis_url, calls, checkLog>>
    /\ UNCHANGED <<redisVars, chatVars, clientVars, appVars>>

\* the guard left out: every call initializes anew
AlreadyInitialized_Never == FALSE

\* if self.initialized: return
AlreadyInitialized == initialized

\* RateLimiter.initialize()
Initialize ==
    /\ rate_limiter # None
    /\ IF AlreadyInitialized
       THEN UNCHANGED <<initialized, backend, buckets, store, sessions,
                        admitted, addedAt>>
       ELSE \E ping_ok \in BOOLEAN : DoInitialize(ping_ok)
    /\ last' = [op |-> "initialize", was_initialized |-> initialized]
    /\ UNCHANGED <<now, limits, api_token, redis_url, rate_limiter, calls, checkLog>>
    /\ UNCHANGED <<redisVars, chatVars, clientVars, appVars>>

\* shutdown_rate_limiter() -> RateLimiter.close()
Close ==
    /\ rate_limiter # None
    /\ initialized' = FALSE
    /\ last' = [op |-> "close"]
    /\ UNCHANGED <<now, limits, api_token, redis_url, rate_limiter, backend,
                   buckets, store, sessions, calls, admitted, checkLog, addedAt>>
    /\ UNCHANGED <<redisVars, chatVars, clientVars, appVars>>

\* RateLimiter.register_premium_session(token, user_id)
RegisterPremiumSession(token, user_id) ==
    /\ rate_limiter # None
    /\ IF store = None
       THEN /\ last' = [op |-> "register", token |-> token,
                        user_id |-> user_id, outcome |-> "RuntimeError"]
            /\ UNCHANGED <<sessions, addedAt>>
       ELSE /\ sessions' = SessionsAdd(sessions, token, user_id, now)
            /\ addedAt' = DictSet(addedAt, token, now)
            /\ last' = [op |-> "register", token |-> token,
                        user_id |-> user_id, outcome |-> "ok",
                        stored |-> token \in DOMAIN sessions,
                        previous |-> IF token \in DOMAIN sessions
                                     THEN sessions[token]
                                     ELSE [user_id |-> None, expires_at |-> 0]]
    /\ UNCHANGED <<now, limits, api_token, redis_url, rate_limiter, initialized,
                   backend, buckets, store, calls, admitted, checkLog>>
    /\ UNCHANGED <<redisVars, chatVars, clientVars, appVars>>

\* PremiumSessionStore.exists(token), called on the store of the limiter
SessionExists(token) ==
    /\ rate_limiter # None
    /\ store = "memory"
    /\ LET r == SessionsExists(sessions, token, now)
       IN  /\ sessions' = r.sessions
           /\ last' = [op |-> "exists", token |-> token, found |-> r.found]
    /\ UNCHANGED <<now, limits, api_token, redis_url, rate_limiter, initialized,
                   backend, buckets, store, calls, admitted, checkLog, addedAt>>
    /\ UNCHANGED <<redisVars, chatVars, clientVars, appVars>>

\* RateLimiter.check(key, tier), called directly
CheckStep(key, tier) ==
    /\ rate_limiter # None
    /\ calls' = calls + 1
    /\ LET r == RateLimiterCheck(key, tier)
       IN  /\ buckets' = r.buckets
           /\ admitted' = Admit(r.acq)
           /\ last' = [op |-> "check", key |-> key, tier |-> tier,
                       outcome |-> r.outcome, acq |-> r.acq]
    /\ UNCHANGED <<now, limits, api_token, redis_url, rate_limiter, initialized,
                   backend, store, sessions, addedAt>>
    /\ UNCHANGED <<redisVars, chatVars, clientVars, appVars>>

Check(key, tier) ==
    /\ calls < MaxCalls
    /\ CheckStep(key, tier)
    /\ UNCHANGED checkLog

\* enforce_rate_limit(request), the dependency of /chat
EnforceRateLimit(req) ==
    /\ calls < MaxRequests
    /\ calls' = calls + 1
    /\ LET r == EnforceResult(req)
       IN  /\ buckets' = r.buckets
           /\ sessions' = r.sessions
           /\ admitted' = Admit(r.acq)
           /\ last' = [op |-> "enforce", req |-> req, outcome |-> r.outcome,
                       checked |-> r.checked, tier |-> r.tier,
                       identifier |-> r.identifier, acq |-> r.acq,
                       was_initialized |-> LimiterReady]
    /\ UNCHANGED <<now, limits, api_token, redis_url, rate_limiter, initialized,
                   backend, store, checkLog, addedAt>>
    /\ UNCHANGED <<redisVars, chatVars, clientVars, appVars>>

(***************************************************************************)
(* RedisLimiterBackend.acquire, one Redis command per step.  Each command  *)
(* is atomic on the server, and every await lets other callers run.        *)
(***************************************************************************)
NoKey == [count |-> 0, has_ttl |-> FALSE, expire_at |-> 0]

RedisGet(k) == IF k \in DOMAIN rkeys THEN rkeys[k] ELSE NoKey

\* INCR key: a missing key counts from 0 and is created without expiry
RedisIncrValue(k) == RedisGet(k).count + 1

\* TTL key: -2 for a missing key, -1 for a key without expiry, else the
\* remaining time rounded to the nearest second
RedisTtlValue(k, t) ==
    IF k \notin DOMAIN rkeys THEN -2
    ELSE IF ~rkeys[k].has_ttl THEN -1
    ELSE (((rkeys[k].expire_at - t) * 1000) \div TicksPerSec + 500) \div 1000

\* the expiry renewed by every increment
ShouldExpire_Always(counter) == TRUE

\* if counter == 1
ShouldExpire(counter) == counter = 1

\* no counter is ever over the limit
OverLimit_Never(counter, limit) == FALSE

\* if counter > limit
OverLimit(counter, limit) == counter > limit

\* retry_after = max(ttl, 1)
RedisRetryAfter(ttl) == Max(ttl, 1)

\* an acquire that returns is one more admission in the counter's lifetime
Admitted(h, k) == [h EXCEPT ![k].admits = @ + 1]

\* the clock of the Redis server: a key whose expiry is reached is deleted
RedisTick ==
    /\ now < MaxTime
    /\ now' = now + 1
    /\ rkeys' = [k \in {j \in DOMAIN rkeys :
                          ~(rkeys[j].has_ttl /\ rkeys[j].expire_at <= now + 1)}
                   |-> rkeys[k]]
    /\ last' = [op |-> "tick"]
    /\ UNCHANGED <<limits, api_token, redis_url, rate_limiter, initialized,
                   backend, buckets, store, sessions, calls, admitted,
                   checkLog, addedAt, pc, local, rhist>>
    /\ UNCHANGED <<chatVars, clientVars, appVars>>

\* RateLimiter.check(key, tier) by caller p up to its first await:
\* counter = await self.redis.incr(key)
RedisIncr(p, key, tier) ==
    /\ calls < MaxCalls
    /\ rate_limiter # None /\ initialized /\ backend = "redis"
    /\ pc[p] = "idle"
    /\ LET cfg     == TierConfig(tier)
           bkey    == BucketKey(tier, key)
           counter == RedisIncrValue(bkey)
           h       == IF counter = 1
                      THEN DictSet(rhist, bkey, [admits |-> 0, sets |-> 0,
                                                 limit |-> cfg.limit])
                      ELSE rhist
           next    == IF ShouldExpire(counter) THEN "expire"
                      ELSE IF OverLimit(counter, cfg.limit) THEN "ttl"
                      ELSE "idle"
       IN  /\ rkeys' = DictSet(rkeys, bkey,
                               [RedisGet(bkey) EXCEPT !.count = counter])
           /\ local' = [local EXCEPT ![p] = [key |-> bkey, limit |-> cfg.limit,
                                             window |-> cfg.window,
                                             counter |-> counter]]
           /\ pc' = [pc EXCEPT ![p] = next]
           /\ rhist' = IF next = "idle" THEN Admitted(h, bkey) ELSE h
           /\ admitted' = IF next = "idle"
                          THEN Append(admitted,
                                   [key |-> bkey, at |-> now,
                                    limit |-> cfg.limit, window |-> cfg.window])
                          ELSE admitted
           /\ last' = [op |-> "incr", proc |-> p, key |-> bkey,
                       counter |-> counter, done |-> next = "idle",
                       outcome |-> "allow", ttl |-> 0, retry_after |-> 0]
    /\ calls' = calls + 1
    /\ UNCHANGED <<now, limits, api_token, redis_url, rate_limiter,
                   initialized, backend, buckets, store, sessions, checkLog,
                   addedAt>>
    /\ UNCHANGED <<chatVars, clientVars, appVars>>

\* await self.redis.expire(key, window): the expiry of an existing key is
\* set to window seconds from the time of the command
RedisExpire(p) ==
    /\ pc[p] = "expire"
    /\ LET k    == local[p].key
           next == IF OverLimit(local[p].counter, local[p].limit)
                   THEN "ttl" ELSE "idle"
       IN  /\ rkeys' = IF k \in DOMAIN rkeys
                       THEN [rkeys EXCEPT ![k].has_ttl = TRUE,
                                          ![k].expire_at =
                                    now + local[p].window * TicksPerSec]
                       ELSE rkeys
           /\ pc' = [pc EXCEPT ![p] = next]
           /\ rhist' = LET h == IF k \in DOMAIN rkeys
                                THEN [rhist EXCEPT ![k].sets = @ + 1]
                                ELSE rhist
                       IN  IF next = "idle" THEN Admitted(h, k) ELSE h
           /\ admitted' = IF next = "idle"
                          THEN Append(admitted,
                                   [key |-> k, at |-> now,
                                    limit |-> local[p].limit,
                                    window |-> local[p].window])
                          ELSE admitted
           /\ last' = [op |-> "expire", proc |-> p, key |-> k,
                       counter |-> local[p].counter, done |-> next = "idle",
                       outcome |-> "allow", ttl |-> 0, retry_after |-> 0]
    /\ UNCHANGED <<now, limits, api_token, redis_url, rate_limiter,
                   initialized, backend, buckets, store, sessions, calls,
                   checkLog, addedAt, local>>
    /\ UNCHANGED <<chatVars, clientVars, appVars>>

\* ttl = await self.redis.ttl(key); raise RateLimitExceeded(max(ttl, 1))
RedisTtl(p) ==
    /\ pc[p] = "ttl"
    /\ LET ttl == RedisTtlValue(local[p].key, now)
       IN  last' = [op |-> "ttl", proc |-> p, key |-> local[p].key,
                    counter |-> local[p].counter, done |-> TRUE,
                    outcome |-> "RateLimitExceeded", ttl |-> ttl,
                    retry_after |-> RedisRetryAfter(ttl)]
    /\ pc' = [pc EXCEPT ![p] = "idle"]
    /\ UNCHANGED <<now, limits, api_token, redis_url, rate_limiter,
                   initialized, backend, buckets, store, sessions, calls,
                   admitted, checkLog, addedAt, rkeys, local, rhist>>
    /\ UNCHANGED <<chatVars, clientVars, appVars>>


(***************************************************************************)
(* routers/chat.py: the /chat dispatcher.  One call of chat() is followed  *)
(* from the request to the response; each _generate_for_model task runs    *)
(* from its start to its first real suspension in one step.                *)
(***************************************************************************)
\* config.MODELS (keys)
MODELS == {"gemini", "llama-70b", "llama-8b", "mixtral", "deepseek"}

\* model_id in ["llama-70b", "llama-8b", "mixtral"]
GroqModels == {"llama-70b", "llama-8b", "mixtral"}

\* identifiers a caller may send
ModelIds == {"gemini", "llama-70b", "deepseek", "unknown-model",
             "cerebras-llama3.1-8b"}

\* ChatRequest.models: min_items = 1
ModelLists == UNION {[1..n -> ModelIds] : n \in 1..MaxModels}

\* for each provider, whether api_key_override or the configured key is set
ApiKeyConfigs == [{"gemini", "deepseek"} -> BOOLEAN]

NoApiKeys == [p \in {"gemini", "deepseek"} |-> FALSE]

\* what the Gemini SDK call does once a key is there
GeminiOutcomes == {"ok", "safety"}

\* what the HTTP request to DeepSeek ends with, retries included
DeepSeekOutcomes == {"ok", "http_503"}

\* ticks the synchronous Gemini SDK call keeps the event loop
GeminiBlockingTicks == {0, 1}

\* ', '.join(invalid_models)
RECURSIVE Join(_, _)
Join(seq, sep) ==
    IF seq = <<>> THEN ""
    ELSE IF Len(seq) = 1 THEN seq[1]
    ELSE seq[1] \o sep \o Join(Tail(seq), sep)

\* invalid_models = [m for m in request.models if m not in config.MODELS]
InvalidModels(models) == SelectSeq(models, LAMBDA id : id \notin MODELS)

\* the call rejected only when no requested identifier is known
ChatRejects_AllInvalid(models) == Len(InvalidModels(models)) = Len(models)

\* if invalid_models: raise HTTPException(400)
ChatRejects(models) == InvalidModels(models) # <<>>

\* int((time.time() - start_time) * 1000)
LatencyMs(start, t) == ((t - start) * 1000) \div TicksPerSec

\* ModelResponse
ModelResponse(model, text, latency_ms, error, error_code) ==
    [model |-> model, response |-> text, latency_ms |-> latency_ms,
     error |-> error, error_code |-> error_code]

NoEntry == ModelResponse(None, "", 0, None, None)

\* a coroutine returns a ModelResponse, or raises
Return(entry) == [raised |-> FALSE, exc |-> None, entry |-> entry]

Raise(exc) == [raised |-> TRUE, exc |-> exc, entry |-> NoEntry]

\* the text a provider answers with
AnswerOf(model) == "answer of " \o model

\* gemini_service.generate with the SDK call ending as outcome
GeminiGenerate(has_key, outcome, latency_ms) ==
    IF ~has_key THEN Raise("Gemini API key not configured")
    ELSE IF outcome = "ok"
    THEN Return(ModelResponse("gemini", AnswerOf("gemini"), latency_ms,
                              None, None))
    ELSE Return(ModelResponse("gemini", "", latency_ms,
             "Response blocked by Gemini safety filters. Try rephrasing your prompt.",
             "content_filtered"))

\* groq_service.generate(..., system_prompt=system_prompt): generate has no
\* parameter system_prompt, the call raises TypeError before its body runs
GroqGenerate(model_id) ==
    Raise("GroqService.generate() got an unexpected keyword argument 'system_prompt'")

\* deepseek_service.generate: the error and error_code of each failure
DeepSeekError(outcome) ==
    CASE outcome = "no_key" ->
             [error |-> "DeepSeek API key not configured",
              error_code |-> "authentication_failed"]
      [] outcome = "http_503" ->
             [error |-> "HTTP 503: Service Unavailable",
              error_code |-> "service_unavailable"]
      [] outcome = "ConnectError" ->
             [error |-> "All connection attempts failed",
              error_code |-> "network_error"]

\* deepseek_service.generate once the request has ended as outcome
DeepSeekGenerate(outcome, latency_ms) ==
    IF outcome = "ok"
    THEN Return(ModelResponse("deepseek", AnswerOf("deepseek"), latency_ms,
                              None, None))
    ELSE Return(ModelResponse("deepseek", "", latency_ms,
                              DeepSeekError(outcome).error,
                              DeepSeekError(outcome).error_code))

\* _generate_for_model without its except clause
GenerateForModel_NoCatch(model_id, out) == out

\* _generate_for_model: try: return await <service>.generate(...)
\* except Exception as e: ModelResponse(latency_ms=0, INTERNAL_ERROR)
GenerateForModel(model_id, out) ==
    IF out.raised
    THEN Return(ModelResponse(model_id, "", 0,
                              "Unexpected error: " \o out.exc,
                              "internal_error"))
    ELSE out

\* the results listed in the order the tasks completed
GatherResults_CompletionOrder(ts, order) ==
    [i \in 1..Len(ts) |-> ts[order[i]].result.entry]

\* responses = await asyncio.gather(*tasks): results in the order of tasks
GatherResults(ts, order) == [i \in 1..Len(ts) |-> ts[i].result.entry]

\* the total latency never measured
TotalLatencyMs_Unmeasured(start, t) == 0

\* total_latency_ms = int((time.time() - start_time) * 1000)
TotalLatencyMs(start, t) == LatencyMs(start, t)

NoResponse ==
    [status |-> 0, detail |-> None, invalid |-> <<>>, responses |-> <<>>,
     total_latency_ms |-> 0]

NewTask(model_id) ==
    [model |-> model_id, state |-> "pending", started |-> 0, attempts |-> 0,
     outcome |-> None, result |-> Return(NoEntry)]

Done(task, outcome, out) ==
    [task EXCEPT !.state = "done", !.outcome = outcome,
                 !.result = GenerateForModel(task.model, out)]

\* time passes before and during the call; the event loop runs every task
\* that is ready before it waits, so no time passes while a task has yet
\* to start
ChatTick ==
    /\ chat_pc # "done"
    /\ \A i \in 1..Len(tasks) : tasks[i].state # "pending"
    /\ now < MaxChatTime
    /\ now' = now + 1
    /\ UNCHANGED <<limiterVars, redisVars, clientVars, appVars, chatVars>>

\* chat(request) up to await asyncio.gather(*tasks)
ChatReceive(models) ==
    /\ chat_pc = "idle"
    /\ req_models' = models
    /\ start_time' = now
    /\ IF ChatRejects(models)
       THEN /\ response' = [NoResponse EXCEPT
                   !.status = 400,
                   !.invalid = InvalidModels(models),
                   !.detail = "Invalid model IDs: " \o
                                  Join(InvalidModels(models), ", ")]
            /\ chat_pc' = "done"
            /\ tasks' = <<>>
       ELSE /\ tasks' = [i \in 1..Len(models) |-> NewTask(models[i])]
            /\ chat_pc' = "gather"
            /\ response' = NoResponse
    /\ UNCHANGED <<now, limiterVars, redisVars, clientVars, appVars, api_keys, upstream, completion>>

\* the event loop runs task i, in the order of creation, to its first
\* suspension: gemini and the Groq models end there, deepseek awaits HTTP
TaskStart(i) ==
    /\ chat_pc = "gather"
    /\ i \in 1..Len(tasks)
    /\ tasks[i].state = "pending"
    /\ \A j \in 1..(i - 1) : tasks[j].state # "pending"
    /\ upstream' = Append(upstream, tasks[i].model)
    /\ LET model_id == tasks[i].model
       IN  CASE model_id = "gemini" ->
                  \E outcome \in GeminiOutcomes, d \in GeminiBlockingTicks :
                      /\ now + d <= MaxChatTime
                      /\ api_keys["gemini"] \/ (d = 0 /\ outcome = "ok")
                      /\ now' = now + d
                      /\ tasks' = [tasks EXCEPT ![i] =
                            Done([@ EXCEPT !.started = now],
                                 IF api_keys["gemini"] THEN outcome
                                 ELSE "raised",
                                 GeminiGenerate(api_keys["gemini"], outcome,
                                                LatencyMs(now, now + d)))]
                      /\ completion' = Append(completion, i)
             [] model_id \in GroqModels ->
                  /\ tasks' = [tasks EXCEPT ![i] =
                        Done([@ EXCEPT !.started = now], "raised",
                             GroqGenerate(model_id))]
                  /\ completion' = Append(completion, i)
                  /\ UNCHANGED now
             [] model_id = "deepseek" /\ ~api_keys["deepseek"] ->
                  /\ tasks' = [tasks EXCEPT ![i] =
                        Done([@ EXCEPT !.started = now], "no_key",
                             DeepSeekGenerate("no_key", LatencyMs(now, now)))]
                  /\ completion' = Append(completion, i)
                  /\ UNCHANGED now
             [] model_id = "deepseek" /\ api_keys["deepseek"] ->
                  /\ tasks' = [tasks EXCEPT ![i].state = "inflight",
                                            ![i].started = now,
                                            ![i].attempts = 1]
                  /\ UNCHANGED <<now, completion>>
    /\ IF tasks[i].model = "deepseek" /\ api_keys["deepseek"]
       THEN SharedPost("deepseek")
       ELSE UNCHANGED <<http_client, http_created, last_post>>
    /\ UNCHANGED <<limiterVars, redisVars, clientVars, api_keys, chat_pc,
                   req_models, start_time, response, app_state,
                   own_transports, auth_limiter, apple_skip, apple_cache, auth_response, auth_log>>

\* the HTTP request of task i ends, and with it the task
TaskComplete(i, outcome) ==
    /\ chat_pc = "gather"
    /\ i \in 1..Len(tasks)
    /\ tasks[i].state = "inflight"
    /\ tasks' = [tasks EXCEPT ![i] =
          Done(@, outcome,
               DeepSeekGenerate(outcome, LatencyMs(tasks[i].started, now)))]
    /\ completion' = Append(completion, i)
    /\ UNCHANGED <<now, limiterVars, redisVars, clientVars, appVars, api_keys, chat_pc, req_models,
                   start_time, response, upstream>>

\* gather ends: with the results once every task is done, or with the
\* exception of a task that raised
ChatReturn ==
    /\ chat_pc = "gather"
    /\ LET raised == \E i \in 1..Len(tasks) :
                         tasks[i].state = "done" /\ tasks[i].result.raised
       IN  /\ raised \/ \A i \in 1..Len(tasks) : tasks[i].state = "done"
           /\ response' =
                  IF raised THEN [NoResponse EXCEPT !.status = 500]
                  ELSE [NoResponse EXCEPT
                           !.status = 200,
                           !.responses = GatherResults(tasks, completion),
                           !.total_latency_ms = TotalLatencyMs(start_time, now)]
    /\ chat_pc' = "done"
    /\ UNCHANGED <<now, limiterVars, redisVars, clientVars, appVars, api_keys, req_models,
                   start_time, tasks, upstream, completion>>


(***************************************************************************)
(* The provider clients, the retrying transport and categorize_error,      *)
(* each taken on its own.                                                  *)
(***************************************************************************)
\* with_retry: nothing returned or raised yet
NoResult == [raised |-> FALSE, value |-> None, attempts |-> 0]

\* no generate() call made yet
NoCall == [made |-> FALSE]


(***************************************************************************)
(* models/error_codes.py: categorize_error.  A message is a sequence of    *)
(* fragments; a keyword occurs in it when one of its fragments, put in     *)
(* lower case, is that keyword (no keyword of the source lies within       *)
(* another).                                                               *)
(***************************************************************************)
\* the fragments messages are made of
Vocabulary == {"api key", "401", "rate limit", "429", "quota", "exceeded",
               "overloaded", "503", "unavailable", "timeout", "Timeout",
               "blocked", "connection", "hello"}

Messages == UNION {[1..n -> Vocabulary] : n \in 0..MaxFragments}

\* str.lower()
Lower(w) ==
    IF w = "Timeout" THEN "timeout"
    ELSE IF w = "API key" THEN "api key"
    ELSE w

\* any(keyword in error_str for keyword in [...])
AnyKeyword(msg, keywords) ==
    \E i \in 1..Len(msg) : Lower(msg[i]) \in keywords

\* the keyword groups of categorize_error, in the order of its if statements
KeywordGroups == <<
    [kind |-> "authentication_failed",
     keywords |-> {"api key", "authentication", "401", "unauthorized"}],
    [kind |-> "rate_limited",
     keywords |-> {"rate limit", "429", "too many requests"}],
    [kind |-> "quota_exceeded", keywords |-> {"quota", "exceeded"}],
    [kind |-> "model_overloaded", keywords |-> {"overloaded", "503"}],
    [kind |-> "service_unavailable",
     keywords |-> {"unavailable", "502", "504"}],
    [kind |-> "timeout", keywords |-> {"timeout", "timed out"}],
    [kind |-> "content_filtered",
     keywords |-> {"safety", "blocked", "filter", "content policy"}],
    [kind |-> "network_error", keywords |-> {"connection", "network", "dns"}] >>

\* the if statements from the g-th on, then return ErrorCode.UNKNOWN_ERROR
RECURSIVE CategorizeFrom(_, _)
CategorizeFrom(msg, g) ==
    IF g > Len(KeywordGroups) THEN "unknown_error"
    ELSE IF AnyKeyword(msg, KeywordGroups[g].keywords)
         THEN KeywordGroups[g].kind
         ELSE CategorizeFrom(msg, g + 1)

\* the groups tried from the last to the first
CategorizeError_LastWins(msg) ==
    LET hits == {g \in 1..Len(KeywordGroups) :
                     AnyKeyword(msg, KeywordGroups[g].keywords)}
    IN  IF hits = {} THEN "unknown_error"
        ELSE KeywordGroups[CHOOSE g \in hits : \A h \in hits : h <= g].kind

\* categorize_error(exception), on str(exception)
CategorizeError(msg) == CategorizeFrom(msg, 1)

\* a failure message is classified
Categorize(msg) ==
    /\ error_msg' = msg
    /\ error_kind' = CategorizeError(msg)
    /\ UNCHANGED <<coreVars, redisVars, chatVars, appVars, retry_pc, attempt_log,
                   retry_waits, retry_result, client_call>>


(***************************************************************************)
(* utils/performance.py: with_retry, as DeepSeekService._make_request      *)
(* uses it (tenacity: stop_after_attempt, wait_exponential,                *)
(* retry_if_exception_type, reraise=True).                                 *)
(***************************************************************************)
MAX_ATTEMPTS == 3
MIN_WAIT == 1
MAX_WAIT == 10

\* how one attempt of the request can end: a response with a status, or an
\* httpx transport exception
AttemptOutcomes == {"ok", "http_400", "http_503", "ConnectError",
                    "ConnectTimeout", "ReadTimeout", "PoolTimeout",
                    "WriteTimeout"}

\* a received 5xx response retried as well
ShouldRetry_ServerErrors(outcome) ==
    outcome \in {"ConnectError", "ConnectTimeout", "ReadTimeout",
                 "PoolTimeout", "http_503"}

\* retry=retry_if_exception_type((ConnectError, ConnectTimeout,
\*                                ReadTimeout, PoolTimeout))
ShouldRetry(outcome) ==
    outcome \in {"ConnectError", "ConnectTimeout", "ReadTimeout",
                 "PoolTimeout"}

\* one attempt more than configured
StopAfterAttempt_OneMore(attempt_number) == attempt_number > MAX_ATTEMPTS

\* stop=stop_after_attempt(max_attempts)
StopAfterAttempt(attempt_number) == attempt_number >= MAX_ATTEMPTS

RECURSIVE Pow2(_)
Pow2(n) == IF n = 0 THEN 1 ELSE 2 * Pow2(n - 1)

Min(a, b) == IF a <= b THEN a ELSE b

\* wait=wait_exponential(multiplier=1, min=min_wait, max=max_wait), in
\* seconds, after the attempt of the given number
WaitExponential(attempt_number) ==
    Max(MIN_WAIT, Min(Pow2(attempt_number - 1), MAX_WAIT))

\* the decorated function is called
RetryCall ==
    /\ retry_pc = "idle"
    /\ retry_pc' = "attempt"
    /\ UNCHANGED <<coreVars, redisVars, chatVars, appVars, attempt_log, retry_waits,
                   retry_result, client_call, error_msg, error_kind>>

\* one attempt: client.post, raise_for_status, response.json(); then
\* tenacity returns the value, sleeps before another attempt, or re-raises
Attempt(outcome) ==
    /\ retry_pc = "attempt"
    /\ attempt_log' = Append(attempt_log, outcome)
    /\ LET attempt_number == Len(attempt_log) + 1
       IN  IF outcome = "ok"
           THEN /\ retry_pc' = "returned"
                /\ retry_result' = [raised |-> FALSE, value |-> outcome,
                                    attempts |-> attempt_number]
           ELSE IF ShouldRetry(outcome) /\ ~StopAfterAttempt(attempt_number)
           THEN /\ retry_pc' = "sleep"
                /\ UNCHANGED retry_result
           ELSE /\ retry_pc' = "raised"
                /\ retry_result' = [raised |-> TRUE, value |-> outcome,
                                    attempts |-> attempt_number]
    /\ SharedPost("deepseek")
    /\ UNCHANGED <<coreVars, redisVars, chatVars, retry_waits, client_call,
                   error_msg, error_kind, app_state, own_transports,
                   auth_limiter, apple_skip, apple_cache, auth_response, auth_log>>

\* the wait before the next attempt
RetrySleep ==
    /\ retry_pc = "sleep"
    /\ retry_waits' = Append(retry_waits, WaitExponential(Len(attempt_log)))
    /\ now' = now + WaitExponential(Len(attempt_log)) * TicksPerSec
    /\ retry_pc' = "attempt"
    /\ UNCHANGED <<limiterVars, redisVars, chatVars, appVars, attempt_log,
                   retry_result, client_call, error_msg, error_kind>>


(***************************************************************************)
(* services/*.py: generate() of each provider client, as a function of     *)
(* whether a key is there and of what the upstream answers.                *)
(***************************************************************************)
Providers == {"gemini", "groq", "deepseek", "cerebras"}

\* Optional[int]
NoTokens == [some |-> FALSE, v |-> 0]

SomeTokens(n) == [some |-> TRUE, v |-> n]

\* Optional[str], the string a message
NoError == [some |-> FALSE, v |-> <<>>]

SomeError(msg) == [some |-> TRUE, v |-> msg]

\* why the upstream stopped generating
FinishReasons == {"stop", "max_tokens", "safety"}

\* the text generated so far; for gemini no text means no content parts
Texts == {"", "abc", "abcdefghi"}

\* completion_tokens of the usage data, when the upstream reports usage
Usages == {NoTokens, SomeTokens(7)}

\* what the upstream answers: a well-formed reply, or a failure
UpstreamReplies ==
    {[kind |-> "reply", finish |-> f, text |-> t, usage |-> u] :
         f \in FinishReasons, t \in Texts, u \in Usages}
    \cup {[kind |-> k, finish |-> "none", text |-> "", usage |-> NoTokens] :
              k \in {"http_503", "connect_error", "bad_shape",
                     "prompt_blocked"}}

\* config.<PROVIDER>_API_KEY, and the entry of request.api_overrides
ConfiguredKeys == {None, "cfg-key"}

OverrideKeys == {None, "req-key"}

\* the composed system prompt, the history of the model and the prompt
SystemPrompts == {None, "sys"}

Histories ==
    {<<>>,
     <<[role |-> "user", content |-> "q1"],
       [role |-> "assistant", content |-> "a1"],
       [role |-> "user", content |-> "q2"]>>}

CurrentPrompt == "q3"

\* the key a client authenticates its upstream call with: gemini, groq and
\* deepseek take api_key_override or the configured key; cerebras has no
\* such parameter and _generate_for_model hands it none
ClientApiKey(provider, default_key, api_key_override) ==
    IF provider = "cerebras" THEN default_key
    ELSE PyOr(api_key_override, default_key)

\* {"role": msg.role, "content": msg.content} for msg in conversation_history
HistoryMessages(history) ==
    [i \in 1..Len(history) |->
        [role |-> history[i].role, content |-> history[i].content]]

\* if system_prompt: messages.append({"role": "system", ...})
SystemMessage(system_prompt) ==
    IF Truthy(system_prompt)
    THEN <<[role |-> "system", content |-> system_prompt]>>
    ELSE <<>>

\* the prompt sent ahead of the history
DeepSeekMessages_PromptFirst(system_prompt, history, prompt) ==
    SystemMessage(system_prompt)
        \o <<[role |-> "user", content |-> prompt]>>
        \o HistoryMessages(history)

\* DeepSeekService.generate: messages
DeepSeekMessages(system_prompt, history, prompt) ==
    SystemMessage(system_prompt)
        \o HistoryMessages(history)
        \o <<[role |-> "user", content |-> prompt]>>

\* CerebrasService.generate: messages
CerebrasMessages(system_prompt, history, prompt) ==
    SystemMessage(system_prompt)
        \o HistoryMessages(history)
        \o <<[role |-> "user", content |-> prompt]>>

\* GroqService.generate: messages; generate has no parameter system_prompt
GroqMessages(history, prompt) ==
    HistoryMessages(history) \o <<[role |-> "user", content |-> prompt]>>

\* role_label = "User" if msg.role == "user" else "Assistant"
RoleLabel(role) == IF role = "user" THEN "User" ELSE "Assistant"

\* GeminiService.generate: combined_prompt, as its paragraphs (the pieces
\* that "\n\n" separates)
GeminiPrompt(system_prompt, history, prompt) ==
    (IF Truthy(system_prompt) THEN <<system_prompt>> ELSE <<>>)
        \o [i \in 1..Len(history) |->
               RoleLabel(history[i].role) \o ": " \o history[i].content]
        \o <<"User: " \o prompt, "Assistant:">>

\* what the client hands to its upstream
NoRequest == [sent |-> FALSE, credential |-> None, messages |-> <<>>]

UpstreamRequest(in) ==
    IF ~in.has_key THEN NoRequest
    ELSE [sent |-> TRUE,
          credential |-> ClientApiKey(in.provider, in.default_key,
                                      in.api_key_override),
          messages |->
              CASE in.provider = "gemini" ->
                       GeminiPrompt(in.system_prompt, in.history, CurrentPrompt)
                [] in.provider = "groq" ->
                       GroqMessages(in.history, CurrentPrompt)
                [] in.provider = "deepseek" ->
                       DeepSeekMessages(in.system_prompt, in.history,
                                        CurrentPrompt)
                [] in.provider = "cerebras" ->
                       CerebrasMessages(in.system_prompt, in.history,
                                        CurrentPrompt)]

\* prompt_blocked: a Gemini reply without candidates; the Groq client is
\* called with its own parameters, a system prompt is not one of them
ClientInputs ==
    {in \in [provider : Providers, has_key : BOOLEAN, up : UpstreamReplies,
             default_key : ConfiguredKeys, api_key_override : OverrideKeys,
             system_prompt : SystemPrompts, history : Histories] :
         /\ in.up.kind = "prompt_blocked" => in.provider = "gemini"
         /\ in.has_key = Truthy(ClientApiKey(in.provider, in.default_key,
                                             in.api_key_override))
         /\ in.provider = "groq" => in.system_prompt = None}

\* text += "\n\n[Note: Response truncated due to token limit]"
TruncationNotice == "\n\n[Note: Response truncated due to token limit]"

\* if finish_reason == 2: text += notice
GeminiText(up) ==
    IF up.finish = "max_tokens" THEN up.text \o TruncationNotice ELSE up.text

\* GeminiService._estimate_tokens: len(text) // 4
EstimateTokens(text) == Len(text) \div 4

\* a ModelResponse with its token count
ClientResponse(model, text, tokens, error, error_code) ==
    [model |-> model, response |-> text, tokens |-> tokens,
     error |-> error, error_code |-> error_code]

ClientError(model, msg, error_code) ==
    Return(ClientResponse(model, "", NoTokens, SomeError(msg), error_code))

\* str(e) of the exception each failure ends in
FailureMessage(provider, up) ==
    CASE up.kind = "http_503" /\ provider = "deepseek" ->
             <<"HTTP 503: Service Unavailable">>
      [] up.kind = "http_503" /\ provider # "deepseek" ->
             <<"503", "unavailable">>
      [] up.kind = "connect_error" -> <<"connection", "attempts failed">>
      [] up.kind = "bad_shape" -> <<"list index out of range">>
      [] up.kind = "prompt_blocked" -> <<"No response candidates returned">>

\* gemini_service.py, except Exception: categorize_error, then the
\* overrides for "safety"/"blocked" and for "api key"
GeminiErrorCode(msg) ==
    IF AnyKeyword(msg, {"safety", "blocked"}) THEN "content_filtered"
    ELSE IF AnyKeyword(msg, {"api key"}) THEN "authentication_failed"
    ELSE CategorizeError(msg)

\* GeminiService.generate
GeminiClient(has_key, up) ==
    IF ~has_key THEN Raise("Gemini API key not configured")
    ELSE IF up.kind # "reply"
    THEN ClientError("gemini", FailureMessage("gemini", up),
                     GeminiErrorCode(FailureMessage("gemini", up)))
    ELSE IF up.text = ""
    THEN LET msg == IF up.finish = "safety"
                    THEN <<"Response", "blocked", "by Gemini", "safety",
                           "filters. Try rephrasing your prompt.">>
                    ELSE <<"No content generated. Reason:", up.finish>>
         IN  ClientError("gemini", msg, GeminiErrorCode(msg))
    ELSE Return(ClientResponse("gemini", GeminiText(up),
                               SomeTokens(EstimateTokens(GeminiText(up))),
                               NoError, None))

\* GroqService.generate(model_id, prompt, ...), called with its own
\* parameters
GroqClient(has_key, up) ==
    IF ~has_key
    THEN ClientError("llama-70b", <<"Groq", "API key", "not configured">>,
                     CategorizeError(<<"Groq", "API key", "not configured">>))
    ELSE IF up.kind # "reply"
    THEN ClientError("llama-70b", FailureMessage("groq", up),
                     CategorizeError(FailureMessage("groq", up)))
    ELSE Return(ClientResponse("llama-70b", up.text, up.usage, NoError, None))

\* DeepSeekService.generate
DeepSeekClient(has_key, up) ==
    IF ~has_key
    THEN ClientError("deepseek", <<"DeepSeek", "API key", "not configured">>,
                     CategorizeError(<<"DeepSeek", "API key",
                                       "not configured">>))
    ELSE IF up.kind = "http_503"
    THEN ClientError("deepseek", FailureMessage("deepseek", up),
                     "service_unavailable")
    ELSE IF up.kind # "reply"
    THEN ClientError("deepseek", FailureMessage("deepseek", up),
                     CategorizeError(FailureMessage("deepseek", up)))
    ELSE Return(ClientResponse("deepseek", up.text, up.usage, NoError, None))

\* CerebrasService.generate: the reply is read outside the try
CerebrasClient(has_key, up) ==
    IF ~has_key
    THEN ClientError("cerebras", <<"Cerebras", "API key", "not configured">>,
                     "authentication_failed")
    ELSE IF up.kind = "bad_shape" THEN Raise("KeyError: 'message'")
    ELSE IF up.kind # "reply"
    THEN ClientError("cerebras", FailureMessage("cerebras", up),
                     CategorizeError(FailureMessage("cerebras", up)))
    ELSE Return(ClientResponse("cerebras", up.text, up.usage, NoError, None))

\* generate() of the provider's client
ClientGenerateResult(in) ==
    CASE in.provider = "gemini" -> GeminiClient(in.has_key, in.up)
      [] in.provider = "groq" -> GroqClient(in.has_key, in.up)
      [] in.provider = "deepseek" -> DeepSeekClient(in.has_key, in.up)
      [] in.provider = "cerebras" -> CerebrasClient(in.has_key, in.up)

\* a provider client is called
ClientGenerate(in) ==
    /\ client_call' = [made |-> TRUE, in |-> in,
                       request |-> UpstreamRequest(in),
                       result |-> ClientGenerateResult(in)]
    /\ IF ~in.has_key THEN UNCHANGED <<http_client, http_created, last_post>>
       ELSE IF in.provider = "deepseek" THEN SharedPost("deepseek")
       ELSE IF in.provider = "cerebras"
       THEN OwnPost("cerebras") /\ UNCHANGED <<http_client, http_created>>
       ELSE UNCHANGED <<http_client, http_created, last_post>>
    /\ UNCHANGED <<coreVars, redisVars, chatVars, retry_pc, attempt_log,
                   retry_waits, retry_result, error_msg, error_kind,
                   app_state, own_transports, auth_limiter, apple_skip, apple_cache, auth_response,
                   auth_log>>


(***************************************************************************)
(* POST /chat with its dependencies: require_api_token, then               *)
(* enforce_rate_limit, then chat().                                        *)
(***************************************************************************)
\* HTTPBearer(auto_error=False): the scheme and the credentials of the
\* Authorization header, None without a header
Credentials(authorization) ==
    CASE authorization = None ->
             [present |-> FALSE, scheme |-> None, credentials |-> None]
      [] authorization = "Bearer s3cret" ->
             [present |-> TRUE, scheme |-> "Bearer", credentials |-> "s3cret"]
      [] authorization = "bearer s3cret" ->
             [present |-> TRUE, scheme |-> "bearer", credentials |-> "s3cret"]
      [] authorization = "Bearer wrong" ->
             [present |-> TRUE, scheme |-> "Bearer", credentials |-> "wrong"]

\* scheme.lower()
LowerScheme(scheme) == IF scheme = "Bearer" THEN "bearer" ELSE scheme

\* every request let through
RequireApiToken_Open(req) == "pass"

\* require_api_token: 401 unless no token is configured or the bearer
\* credentials are the token
RequireApiToken(req) ==
    IF ~Truthy(api_token) THEN "pass"
    ELSE IF ~Credentials(req.authorization).present THEN "401"
    ELSE IF \/ LowerScheme(Credentials(req.authorization).scheme) # "bearer"
            \/ Credentials(req.authorization).credentials # api_token
         THEN "401"
         ELSE "pass"

Digits == <<"0", "1", "2", "3", "4", "5", "6", "7", "8", "9">>

\* str(n) of an int n >= 0
RECURSIVE Str(_)
Str(n) ==
    IF n < 10 THEN Digits[n + 1]
    ELSE Str(n \div 10) \o Digits[(n % 10) + 1]

\* the model lists sent through the whole endpoint
GatewayModels == {<<"deepseek">>, <<"llama-70b", "deepseek">>,
                  <<"unknown-model">>}

\* one request to POST /chat, up to the response of a dependency or to
\* await asyncio.gather(*tasks) of the handler
ChatEndpoint(req, models) ==
    /\ chat_pc = "idle"
    /\ calls < MaxRequests
    /\ calls' = calls + 1
    /\ req_models' = models
    /\ start_time' = now
    /\ IF RequireApiToken(req) = "401"
       THEN /\ response' = [NoResponse EXCEPT !.status = 401,
                                              !.detail = "Unauthorized"]
            /\ chat_pc' = "done"
            /\ tasks' = <<>>
            /\ last' = [op |-> "chat", req |-> req, admission |-> "401",
                        acq |-> NoAcquire, headers |-> EmptyDict]
            /\ UNCHANGED <<buckets, sessions, admitted>>
       ELSE LET r == EnforceResult(req)
            IN  /\ buckets' = r.buckets
                /\ sessions' = r.sessions
                /\ admitted' = Admit(r.acq)
                /\ IF r.outcome = "429"
                   THEN /\ response' = [NoResponse EXCEPT
                               !.status = 429,
                               !.detail = "Too many requests. Please slow down."]
                        /\ chat_pc' = "done"
                        /\ tasks' = <<>>
                        /\ last' = [op |-> "chat", req |-> req,
                                    admission |-> "429", acq |-> r.acq,
                                    headers |-> DictSet(EmptyDict,
                                        "Retry-After",
                                        Str(r.acq.retry_after))]
                   ELSE /\ last' = [op |-> "chat", req |-> req,
                                    admission |-> "pass", acq |-> r.acq,
                                    headers |-> EmptyDict]
                        /\ IF ChatRejects(models)
                           THEN /\ response' = [NoResponse EXCEPT
                                       !.status = 400,
                                       !.invalid = InvalidModels(models),
                                       !.detail = "Invalid model IDs: " \o
                                           Join(InvalidModels(models), ", ")]
                                /\ chat_pc' = "done"
                                /\ tasks' = <<>>
                           ELSE /\ tasks' = [i \in 1..Len(models) |->
                                                 NewTask(models[i])]
                                /\ chat_pc' = "gather"
                                /\ response' = NoResponse
    /\ UNCHANGED <<now, limits, api_token, redis_url, rate_limiter,
                   initialized, backend, store, checkLog, addedAt, redisVars,
                   clientVars, appVars, api_keys, upstream, completion>>

\* the response is sent; the next request starts afresh
ChatDeliver ==
    /\ chat_pc = "done"
    /\ chat_pc' = "idle"
    /\ req_models' = <<>>
    /\ start_time' = 0
    /\ tasks' = <<>>
    /\ response' = NoResponse
    /\ upstream' = <<>>
    /\ completion' = <<>>
    /\ UNCHANGED <<coreVars, redisVars, clientVars, appVars, api_keys>>


(***************************************************************************)
(* services/apple_auth.py and routers/auth.py: Sign in with Apple.         *)
(***************************************************************************)
KEYS_CACHE_SEC == 900

\* the identity tokens sent, by what is wrong with them
IdentityTokens == {"garbage", "no_kid", "unknown_kid", "bad_signature",
                   "wrong_audience", "wrong_issuer", "valid", "valid_no_sub"}

\* tokens that jwt.decode turns down with a JWTError
DecodeFailures == {"bad_signature", "wrong_audience", "wrong_issuer"}

\* how the download of the key set ends when it is made
FetchOutcomes == {"ok", "http_error", "bad_json"}

\* str(uuid.uuid4()) for the session token
IssuedTokens == {"tokA", "tokB"}

NoCache == [some |-> FALSE, expiry |-> 0]

VerifyOk(sub, cache) ==
    [raised |-> FALSE, exc |-> None, msg |-> None, step |-> None,
     sub |-> sub, cache |-> cache]

\* raise AppleSignInError(msg)
VerifyFail(step, msg, cache) ==
    [raised |-> TRUE, exc |-> "AppleSignInError", msg |-> msg, step |-> step,
     sub |-> None, cache |-> cache]

\* _fetch_apple_keys(): the cached key set while it is fresh, else a
\* download that ends as fetch
FetchAppleKeys(fetch) ==
    IF apple_cache.some /\ now < apple_cache.expiry
    THEN VerifyOk(None, apple_cache)
    ELSE CASE fetch = "ok" ->
                  VerifyOk(None, [some |-> TRUE,
                                  expiry |-> now + KEYS_CACHE_SEC * TicksPerSec])
           [] fetch = "http_error" ->
                  VerifyFail("fetch", "Could not fetch Apple public keys",
                             apple_cache)
           [] fetch = "bad_json" ->
                  [raised |-> TRUE, exc |-> "JSONDecodeError",
                   msg |-> "Expecting value", step |-> "fetch",
                   sub |-> None, cache |-> apple_cache]

\* the claims of a token that passes: its sub, None without one
SubOf(tok) == IF tok = "valid" THEN "u1" ELSE None

\* verify_identity_token(identity_token)
VerifyIdentityToken(tok, fetch) ==
    IF apple_skip THEN VerifyOk("uuid-sub", apple_cache)
    ELSE IF tok = "garbage"
    THEN VerifyFail("header", "Invalid identity token header", apple_cache)
    ELSE IF tok = "no_kid"
    THEN VerifyFail("kid", "Identity token header missing 'kid'", apple_cache)
    ELSE LET jwks == FetchAppleKeys(fetch)
         IN  IF jwks.raised THEN jwks
             ELSE IF tok = "unknown_kid"
             THEN VerifyFail("key",
                      "Unable to locate signing key for identity token",
                      jwks.cache)
             ELSE IF tok \in DecodeFailures
             THEN VerifyFail("decode", "Identity token verification failed",
                             jwks.cache)
             ELSE VerifyOk(SubOf(tok), jwks.cache)

\* detail=str(exc)
AuthFailureDetail(v) == v.msg

\* routers/auth.py read while the module global rate_limiter is ready
AuthLimiterReady_Global == rate_limiter # None /\ initialized

\* not (rate_limiter is None or not rate_limiter.initialized), on the name
\* that from backend.services.rate_limiter import rate_limiter bound
AuthLimiterReady == auth_limiter # None /\ initialized

\* routers/auth.py is imported: its rate_limiter is the value the global has
\* then, and the verifier is made from the configuration
ImportAuth ==
    /\ auth_limiter = "<unbound>"
    /\ auth_limiter' = rate_limiter
    /\ apple_skip' \in BOOLEAN
    /\ UNCHANGED <<coreVars, redisVars, chatVars, clientVars, app_state,
                   http_client, http_created, own_transports, last_post,
                   apple_cache, auth_response, auth_log>>

\* POST /auth/apple
VerifyAppleSignIn(tok, fetch, session_token) ==
    /\ auth_limiter # "<unbound>"
    /\ calls < MaxRequests
    /\ calls' = calls + 1
    /\ session_token \notin DOMAIN sessions
    /\ IF ~AuthLimiterReady
       THEN /\ auth_response' = [NoAuthResponse EXCEPT
                   !.status = 503,
                   !.detail = "Rate limiter not initialized"]
            /\ last' = [op |-> "auth", tok |-> tok, fetch |-> fetch,
                        session_token |-> session_token, verified |-> FALSE,
                        was_ready |-> AuthLimiterReady_Global]
            /\ UNCHANGED <<sessions, addedAt, apple_cache, auth_log>>
       ELSE LET v == VerifyIdentityToken(tok, fetch)
            IN  /\ apple_cache' = v.cache
                /\ last' = [op |-> "auth", tok |-> tok, fetch |-> fetch,
                            session_token |-> session_token,
                            verified |-> ~v.raised,
                            was_ready |-> AuthLimiterReady_Global]
                /\ IF v.raised /\ v.exc = "AppleSignInError"
                   THEN /\ auth_response' = [NoAuthResponse EXCEPT
                               !.status = 400,
                               !.detail = AuthFailureDetail(v)]
                        /\ auth_log' = auth_log \cup
                               {[step |-> v.step, exc |-> v.exc,
                                 status |-> 400,
                                 detail |-> AuthFailureDetail(v)]}
                        /\ UNCHANGED <<sessions, addedAt>>
                   ELSE IF v.raised
                   THEN /\ auth_response' = [NoAuthResponse EXCEPT
                               !.status = 500,
                               !.detail = "Internal Server Error"]
                        /\ auth_log' = auth_log \cup
                               {[step |-> v.step, exc |-> v.exc,
                                 status |-> 500,
                                 detail |-> "Internal Server Error"]}
                        /\ UNCHANGED <<sessions, addedAt>>
                   ELSE /\ sessions' = SessionsAdd(sessions, session_token,
                                                   PyOr(v.sub, "uuid-user"), now)
                        /\ addedAt' = DictSet(addedAt, session_token, now)
                        /\ auth_response' = [status |-> 200, detail |-> None,
                                             session_token |-> session_token,
                                             expires_in |-> SessionTtlSec]
                        /\ UNCHANGED auth_log
    /\ UNCHANGED <<now, limits, api_token, redis_url, rate_limiter, initialized,
                   backend, buckets, store, admitted, checkLog, redisVars,
                   chatVars, clientVars, app_state, http_client, http_created,
                   own_transports, last_post, auth_limiter, apple_skip>>

(***************************************************************************)
(* main.py: the startup and shutdown handlers of the app.                  *)
(***************************************************************************)
\* startup_event(): get_http_client(), then the models and the API keys
\* are logged
Startup ==
    /\ app_state = "created"
    /\ app_state' = "running"
    /\ http_client' = GetHttpClient.client
    /\ http_created' = GetHttpClient.created
    /\ UNCHANGED <<coreVars, redisVars, chatVars, clientVars, own_transports,
                   last_post, auth_limiter, apple_skip, apple_cache, auth_response, auth_log>>

\* shutdown_event(): close_http_client()
Shutdown ==
    /\ app_state = "running"
    /\ app_state' = "stopped"
    /\ http_client' = IF http_client.some /\ ~http_client.is_closed
                      THEN NoClient ELSE http_client
    /\ UNCHANGED <<coreVars, redisVars, chatVars, clientVars, http_created,
                   own_transports, last_post, auth_limiter, apple_skip, apple_cache, auth_response,
                   auth_log>>

\* CerebrasService.generate with a key, up to await client.post(...) inside
\* async with httpx.AsyncClient(timeout=30)
CerebrasPost ==
    /\ own_transports < MaxConcurrent
    /\ own_transports' = own_transports + 1
    /\ OwnPost("cerebras")
    /\ UNCHANGED <<coreVars, redisVars, chatVars, clientVars, app_state,
                   http_client, http_created, auth_limiter, apple_skip,
                   apple_cache, auth_response, auth_log>>

\* the request ends and the async with block closes its client
CerebrasDone ==
    /\ own_transports > 0
    /\ own_transports' = own_transports - 1
    /\ UNCHANGED <<coreVars, redisVars, chatVars, clientVars, app_state,
                   http_client, http_created, last_post, auth_limiter,
                   apple_skip, apple_cache, auth_response, auth_log>>

\* a request to POST /chat served by the running app
ServeChat(req, models) ==
    /\ app_state = "running"
    /\ ChatEndpoint(req, models)


\* the state after construction: nothing is initialized
InitCommon ==
    /\ now = 0
    /\ rate_limiter = None
    /\ initialized = FALSE
    /\ backend = None
    /\ buckets = EmptyDict
    /\ store = None
    /\ sessions = EmptyDict
    /\ calls = 0
    /\ admitted = <<>>
    /\ last = [op |-> "start"]
    /\ checkLog = <<>>
    /\ addedAt = EmptyDict
    /\ rkeys = EmptyDict
    /\ pc = [p \in Procs |-> "idle"]
    /\ local = [p \in Procs |-> [key |-> None, limit |-> 0, window |-> 0,
                                  counter |-> 0]]
    /\ rhist = EmptyDict
    /\ chat_pc = "idle"
    /\ req_models = <<>>
    /\ start_time = 0
    /\ tasks = <<>>
    /\ response = NoResponse
    /\ upstream = <<>>
    /\ completion = <<>>
    /\ retry_pc = "idle"
    /\ attempt_log = <<>>
    /\ retry_waits = <<>>
    /\ retry_result = NoResult
    /\ client_call = NoCall
    /\ error_msg = <<>>
    /\ error_kind = None
    /\ app_state = "created"
    /\ http_client = NoClient
    /\ http_created = 0
    /\ own_transports = 0
    /\ last_post = NoPost
    /\ auth_limiter = "<unbound>"
    /\ apple_skip = FALSE
    /\ apple_cache = NoCache
    /\ auth_response = NoAuthResponse
    /\ auth_log = {}

Lifecycle ==
    \/ AdvanceClock
    \/ InitRateLimiter
    \/ Initialize
    \/ Close

(***************************************************************************)
(* Spec: the rate limiter with its in-process backend, called directly.    *)
(***************************************************************************)
Init ==
    /\ InitCommon
    /\ limits = RATE_LIMITS
    /\ api_token = None
    /\ redis_url = None
    /\ api_keys = NoApiKeys

Next ==
    \/ Lifecycle
    \/ \E key \in CheckKeys, tier \in CheckTiers : Check(key, tier)

Spec == Init /\ [][Next]_vars

(***************************************************************************)
(* SpecSessions: the premium session store of the limiter.                 *)
(***************************************************************************)
NextSessions ==
    \/ Lifecycle
    \/ \E token \in Tokens, user_id \in UserIds : RegisterPremiumSession(token, user_id)
    \/ \E token \in Tokens : SessionExists(token)

SpecSessions == Init /\ [][NextSessions]_vars

(***************************************************************************)
(* SpecAdmission: requests going through enforce_rate_limit.               *)
(***************************************************************************)
InitAdmission ==
    /\ InitCommon
    /\ limits = RATE_LIMITS
    /\ api_token \in ApiTokens
    /\ redis_url = None
    /\ api_keys = NoApiKeys

NextAdmission ==
    \/ AdvanceClock
    \/ InitRateLimiter
    \/ Close
    \/ RegisterPremiumSession("tokA", "u1")
    \/ \E req \in Requests : EnforceRateLimit(req)

SpecAdmission == InitAdmission /\ [][NextAdmission]_vars

(***************************************************************************)
(* SpecScenario: sequential checks of one (tier, identity) with limit 3    *)
(* and window 60 s; the clock moves in steps of 20 s and 60 s.             *)
(***************************************************************************)
ScenarioWindow == SCENARIO_LIMITS["anonymous"].window * TicksPerSec

ScenarioSteps == {ScenarioWindow \div 3, ScenarioWindow}

InitScenario ==
    /\ InitCommon
    /\ limits = SCENARIO_LIMITS
    /\ api_token = None
    /\ redis_url = None
    /\ api_keys = NoApiKeys

ScenarioElapse(d) ==
    /\ now + d <= 2 * ScenarioWindow + ScenarioWindow \div 3
    /\ now' = now + d
    /\ last' = [op |-> "tick"]
    /\ UNCHANGED <<limits, api_token, redis_url, rate_limiter, initialized,
                   backend, buckets, store, sessions, calls, admitted, checkLog, addedAt>>
    /\ UNCHANGED <<redisVars, chatVars, clientVars, appVars>>

ScenarioCheck ==
    /\ calls < ScenarioChecks
    /\ CheckStep("caller", "anonymous")
    /\ checkLog' = Append(checkLog, [at |-> now, ok |-> last'.acq.ok,
                                     retry_after |-> last'.acq.retry_after])

NextScenario ==
    \/ InitRateLimiter
    \/ \E d \in ScenarioSteps : ScenarioElapse(d)
    \/ ScenarioCheck

SpecScenario == InitScenario /\ [][NextScenario]_vars

(***************************************************************************)
(* Concurrent callers of a limiter configured with a Redis url             *)
(***************************************************************************)
InitRedis ==
    /\ InitCommon
    /\ limits = RATE_LIMITS
    /\ api_token = None
    /\ redis_url = "redis://cache:6379/0"
    /\ api_keys = NoApiKeys

NextRedis ==
    \/ InitRateLimiter
    \/ RedisTick
    \/ \E p \in Procs, key \in RedisKeys, tier \in RedisTiers :
           RedisIncr(p, key, tier)
    \/ \E p \in Procs : RedisExpire(p)
    \/ \E p \in Procs : RedisTtl(p)

SpecRedis == InitRedis /\ [][NextRedis]_vars

(***************************************************************************)
(* SpecChat: one call of POST /chat.                                       *)
(***************************************************************************)
InitChat ==
    /\ InitCommon
    /\ limits = RATE_LIMITS
    /\ api_token = None
    /\ redis_url = None
    /\ api_keys \in ApiKeyConfigs

NextChat ==
    \/ ChatTick
    \/ \E models \in ModelLists : ChatReceive(models)
    \/ \E i \in 1..MaxModels : TaskStart(i)
    \/ \E i \in 1..MaxModels, outcome \in DeepSeekOutcomes :
           TaskComplete(i, outcome)
    \/ ChatReturn

SpecChat == InitChat /\ [][NextChat]_vars

(***************************************************************************)
(* SpecDispatch: one call of POST /chat with the attempts of the retrying  *)
(* transport.  The event loop runs every task that is ready, every attempt *)
(* sent upstream ends with a response or a failure, and gather returns     *)
(* once its tasks are done.                                                *)
(***************************************************************************)
\* the transport exceptions of the attempts
TransportErrors == {"ConnectError"}

\* an attempt of the HTTP request of task i ends in a transport exception
\* with_retry retries: the request is sent again after the wait, or, after
\* the last attempt, the exception is raised to generate(), which returns
\* the error entry
TaskAttemptFails(i, outcome) ==
    /\ chat_pc = "gather"
    /\ i \in 1..Len(tasks)
    /\ tasks[i].state = "inflight"
    /\ ShouldRetry(outcome)
    /\ IF StopAfterAttempt(tasks[i].attempts)
       THEN /\ tasks' = [tasks EXCEPT ![i] =
                  Done(@, outcome,
                       DeepSeekGenerate(outcome,
                                        LatencyMs(tasks[i].started, now)))]
            /\ completion' = Append(completion, i)
            /\ UNCHANGED <<http_client, http_created, last_post>>
       ELSE /\ tasks' = [tasks EXCEPT ![i].attempts = @ + 1]
            /\ SharedPost("deepseek")
            /\ UNCHANGED completion
    /\ UNCHANGED <<now, limiterVars, redisVars, clientVars, api_keys, chat_pc,
                   req_models, start_time, response, upstream, app_state,
                   own_transports, auth_limiter, apple_skip, apple_cache,
                   auth_response, auth_log>>


NextDispatch ==
    \/ NextChat
    \/ \E i \in 1..MaxModels, outcome \in TransportErrors :
           TaskAttemptFails(i, outcome)

AttemptEnds(i) ==
    \/ \E outcome \in DeepSeekOutcomes : TaskComplete(i, outcome)
    \/ \E outcome \in TransportErrors : TaskAttemptFails(i, outcome)

SpecDispatch ==
    /\ InitChat
    /\ [][NextDispatch]_vars
    /\ \A i \in 1..MaxModels : WF_vars(TaskStart(i))
    /\ \A i \in 1..MaxModels : WF_vars(AttemptEnds(i))
    /\ WF_vars(ChatReturn)

(***************************************************************************)
(* _compose_system_prompt (routers/chat.py).  A text is the sequence of    *)
(* its pieces; a blank or a line break is a piece of its own.              *)
(***************************************************************************)
Blank == {" ", "\n"}

\* str.strip(): the blanks at both ends removed
RECURSIVE LStrip(_)
LStrip(text) ==
    IF text # <<>> /\ Head(text) \in Blank THEN LStrip(Tail(text)) ELSE text

RECURSIVE RStrip(_)
RStrip(text) ==
    IF text # <<>> /\ text[Len(text)] \in Blank
    THEN RStrip(SubSeq(text, 1, Len(text) - 1))
    ELSE text

Strip(text) == RStrip(LStrip(text))

\* Optional[str] and Optional[SearchContext]
NoText == [some |-> FALSE, text |-> <<>>]

SomeText(text) == [some |-> TRUE, text |-> text]

NoSearchContext == [some |-> FALSE, query |-> <<>>, results |-> <<>>]

\* request.conversation_guide
Guides ==
    {NoText, SomeText(<<>>), SomeText(<<" ", "\n">>),
     SomeText(<<"be brief">>), SomeText(<<" ", "be", " ", "brief", "\n">>)}

\* SearchResult(title, snippet, url)
SearchResults ==
    {[title |-> <<"T1">>, snippet |-> <<"one">>, url |-> <<"http://a">>],
     [title |-> <<" ", "T2">>, snippet |-> <<"two", "\n">>,
      url |-> <<" ", "http://b", " ">>]}

\* request.search_context
SearchContexts ==
    {NoSearchContext}
    \cup {[some |-> TRUE, query |-> q, results |-> rs] :
              q \in {<<>>, <<"cats">>, <<" ", "cats", " ">>},
              rs \in UNION {[1..n -> SearchResults] : n \in 0..MaxFindings}}

\* the header of the prompt
Framing ==
    "You are contributing one perspective within CORO, an app that gathers diverse AI viewpoints. Offer thoughtful, well-reasoned answers that complement other assistants, and respect the guidance and context below."

CitationInstruction ==
    "\n\nWhen referencing these sources, cite them inline as [S1], [S2], etc."

\* "\n\n".join(parts), the parts being texts
RECURSIVE JoinTexts(_, _)
JoinTexts(parts, sep) ==
    IF parts = <<>> THEN <<>>
    ELSE IF Len(parts) = 1 THEN parts[1]
    ELSE parts[1] \o <<sep>> \o JoinTexts(Tail(parts), sep)

\* the findings numbered from the end of the list
SummaryLine_CountedBack(idx, result, n) ==
    <<"[S", Str(n + 1 - idx), "] ">> \o Strip(result.title) \o <<"\n">>
        \o Strip(result.snippet) \o <<"\nSource: ">> \o Strip(result.url)

\* f"[S{idx}] {title}\n{snippet}\nSource: {url}", idx from
\* enumerate(results, start=1)
SummaryLine(idx, result, n) ==
    <<"[S", Str(idx), "] ">> \o Strip(result.title) \o <<"\n">>
        \o Strip(result.snippet) \o <<"\nSource: ">> \o Strip(result.url)

\* search_header
SearchHeader(query) ==
    IF query # <<>>
    THEN <<"Web Search Findings for \"">> \o query \o <<"\":\n">>
    ELSE <<"Web Search Findings:\n">>

\* sections, as _compose_system_prompt fills the list
GuideSections(guide) ==
    IF guide.some /\ guide.text # <<>> /\ Strip(guide.text) # <<>>
    THEN << <<"Conversation Guide:\n">> \o Strip(guide.text) >>
    ELSE <<>>

SearchSections(search_context) ==
    IF search_context.some /\ search_context.results # <<>>
    THEN << SearchHeader(Strip(search_context.query))
              \o JoinTexts([i \in 1..Len(search_context.results) |->
                               SummaryLine(i, search_context.results[i],
                                           Len(search_context.results))],
                           "\n\n")
              \o <<CitationInstruction>> >>
    ELSE <<>>

\* _compose_system_prompt(guide=..., search_context=...)
ComposeSystemPrompt(guide, search_context) ==
    LET sections == GuideSections(guide) \o SearchSections(search_context)
    IN  IF sections = <<>> THEN NoText
        ELSE SomeText(<<Framing, "\n\n">> \o JoinTexts(sections, "\n\n"))

\* chat() composes the system prompt of a request
Compose(guide, search_context) ==
    /\ last' = [op |-> "compose", guide |-> guide,
                search_context |-> search_context,
                system_prompt |-> ComposeSystemPrompt(guide, search_context)]
    /\ UNCHANGED <<now, limits, api_token, redis_url, rate_limiter,
                   initialized, backend, buckets, store, sessions, calls,
                   admitted, checkLog, addedAt>>
    /\ UNCHANGED <<redisVars, chatVars, clientVars, appVars>>

(***************************************************************************)
(* SpecCompose: _compose_system_prompt applied to the guidance and the     *)
(* search context of requests.                                             *)
(***************************************************************************)
NextCompose ==
    \E guide \in Guides, search_context \in SearchContexts :
        Compose(guide, search_context)

SpecCompose == Init /\ [][NextCompose]_vars

(***************************************************************************)
(* SpecClassify: categorize_error applied to failure messages.             *)
(***************************************************************************)
InitClassify ==
    /\ InitCommon
    /\ limits = RATE_LIMITS
    /\ api_token = None
    /\ redis_url = None
    /\ api_keys = NoApiKeys

NextClassify == \E msg \in Messages : Categorize(msg)

SpecClassify == InitClassify /\ [][NextClassify]_vars

(***************************************************************************)
(* SpecRetry: one call of a function decorated with with_retry.            *)
(***************************************************************************)
InitRetry ==
    /\ InitCommon
    /\ limits = RATE_LIMITS
    /\ api_token = None
    /\ redis_url = None
    /\ api_keys = NoApiKeys

NextRetry ==
    \/ RetryCall
    \/ \E outcome \in AttemptOutcomes : Attempt(outcome)
    \/ RetrySleep

SpecRetry == InitRetry /\ [][NextRetry]_vars

(***************************************************************************)
(* SpecClients: calls of generate() of the provider clients.               *)
(***************************************************************************)
InitClients ==
    /\ InitCommon
    /\ limits = RATE_LIMITS
    /\ api_token = None
    /\ redis_url = None
    /\ api_keys = NoApiKeys

NextClients == \E in \in ClientInputs : ClientGenerate(in)

SpecClients == InitClients /\ [][NextClients]_vars

(***************************************************************************)
(* SpecGateway: requests to POST /chat through the admission layer.        *)
(***************************************************************************)
InitGateway ==
    /\ InitCommon
    /\ limits = RATE_LIMITS
    /\ api_token \in ApiTokens
    /\ redis_url = None
    /\ api_keys = [p \in {"gemini", "deepseek"} |-> TRUE]

NextGateway ==
    \/ AdvanceClock
    \/ InitRateLimiter
    \/ \E req \in Requests, models \in GatewayModels : ChatEndpoint(req, models)
    \/ \E i \in 1..MaxModels : TaskStart(i)
    \/ \E i \in 1..MaxModels, outcome \in DeepSeekOutcomes :
           TaskComplete(i, outcome)
    \/ ChatReturn
    \/ ChatDeliver

SpecGateway == InitGateway /\ [][NextGateway]_vars

(***************************************************************************)
(* SpecApp: the app from its creation: startup, requests to POST /chat,    *)
(* shutdown.                                                               *)
(***************************************************************************)
InitApp ==
    /\ InitCommon
    /\ limits = RATE_LIMITS
    /\ api_token \in ApiTokens
    /\ redis_url \in {None, "redis://cache"}
    /\ api_keys = [p \in {"gemini", "deepseek"} |-> TRUE]

NextApp ==
    \/ Startup
    \/ Shutdown
    \/ AdvanceClock
    \/ \E req \in Requests, models \in GatewayModels : ServeChat(req, models)
    \/ \E i \in 1..MaxModels : TaskStart(i)
    \/ \E i \in 1..MaxModels, outcome \in DeepSeekOutcomes :
           TaskComplete(i, outcome)
    \/ ChatReturn
    \/ ChatDeliver

SpecApp == InitApp /\ [][NextApp]_vars

(***************************************************************************)
(* SpecAuth: Sign in with Apple beside the rate limiter and the requests   *)
(* it admits.                                                              *)
(***************************************************************************)
NextAuth ==
    \/ ImportAuth
    \/ InitRateLimiter
    \/ AdvanceClock
    \/ \E tok \in IdentityTokens, fetch \in FetchOutcomes,
          session_token \in IssuedTokens :
           VerifyAppleSignIn(tok, fetch, session_token)
    \/ \E req \in Requests : EnforceRateLimit(req)

SpecAuth == InitAdmission /\ [][NextAuth]_vars

(***************************************************************************)
(* SpecLimiter: every method of one RateLimiter, called in any order.      *)
(***************************************************************************)
NextLimiter ==
    \/ Lifecycle
    \/ \E key \in RedisKeys : Check(key, "anonymous")
    \/ \E user_id \in UserIds : RegisterPremiumSession("tokA", user_id)
    \/ SessionExists("tokA")

SpecLimiter == Init /\ [][NextLimiter]_vars

(***************************************************************************)
(* SpecTransport: the HTTP clients of the provider services between        *)
(* startup and shutdown.                                                   *)
(***************************************************************************)
NextTransport ==
    \/ Startup
    \/ Shutdown
    \/ RetryCall
    \/ \E outcome \in AttemptOutcomes : Attempt(outcome)
    \/ RetrySleep
    \/ CerebrasPost
    \/ CerebrasDone

SpecTransport == InitRetry /\ [][NextTransport]_vars

(***************************************************************************)
(* SpecBackoff: one caller per tier checking again and again as the clock  *)
(* moves, every check logged.                                              *)
(***************************************************************************)
BackoffTiers == {"anonymous", "authenticated"}

\* rate_limiter.check("caller", tier) by the caller of that tier
BackoffCheck(tier) ==
    /\ calls < ScenarioChecks
    /\ CheckStep("caller", tier)
    /\ checkLog' = Append(checkLog, [at |-> now, tier |-> tier,
                                     ok |-> last'.acq.ok,
                                     retry_after |-> last'.acq.retry_after])

NextBackoff ==
    \/ InitRateLimiter
    \/ AdvanceClock
    \/ \E tier \in BackoffTiers : BackoffCheck(tier)

SpecBackoff == Init /\ [][NextBackoff]_vars

(***************************************************************************)
(* SpecForged: requests of one host that carry session tokens, most of     *)
(* them never issued.                                                      *)
(***************************************************************************)
ForgedSessions == {"tokA", "tokB", "tokC"}

ForgedRequests ==
    [authorization : {None}, session : ForgedSessions,
     device : DeviceHeaders, host : {"10.0.0.1"}]

NextForged ==
    \/ AdvanceClock
    \/ InitRateLimiter
    \/ RegisterPremiumSession("tokA", "u1")
    \/ \E req \in ForgedRequests : EnforceRateLimit(req)

SpecForged == InitAdmission /\ [][NextForged]_vars

(***************************************************************************)
(* Properties.                                                             *)
(***************************************************************************)
\* the timestamps of bucket key before a call, as the dict holds them
BucketOf(key) == IF key \in DOMAIN buckets THEN buckets[key] ELSE <<>>

\* the admitted acquisitions of a key whose timestamps lie in (t - window, t]
AdmittedInWindow(key, window, t) ==
    {j \in DOMAIN admitted :
        /\ admitted[j].key = key
        /\ admitted[j].at > t - window * TicksPerSec
        /\ admitted[j].at <= t}

C1_WindowNeverExceeded ==
    \A i \in DOMAIN admitted :
        Cardinality(AdmittedInWindow(admitted[i].key, admitted[i].window, now))
            <= admitted[i].limit

C1_RejectedIffFull ==
    (calls' = calls + 1 /\ last'.acq.called) =>
        LET acq  == last'.acq
            live == {j \in DOMAIN BucketOf(acq.key) :
                        BucketOf(acq.key)[j] > now - acq.window * TicksPerSec}
        IN  (~acq.ok) <=> (Cardinality(live) >= acq.limit)

\* C1: sliding-window backend.  For every bucket key, the admitted
\* acquisitions with a timestamp in (now - window, now] never number more
\* than the limit, whatever the order of the calls; and a call of acquire is
\* rejected exactly when the bucket, without its timestamps at or before
\* now - window, already holds limit timestamps.
C1_SlidingWindow == []C1_WindowNeverExceeded /\ [][C1_RejectedIffFull]_vars

\* a call on a bucket that holds two live timestamps is rejected, after
\* another key was served in between
C1_Witness ==
    /\ last.op = "check"
    /\ last.acq.called /\ ~last.acq.ok /\ last.acq.limit = 2
    /\ Cardinality(AdmittedInWindow(last.acq.key, last.acq.window, now)) = 2

\* C2: with limit 3 and window 60 s, of four successive checks of one
\* (tier, identity) made inside one window the first three are allowed and
\* the fourth is rejected with a retry-after above zero; and a check made
\* once a whole window has passed since every earlier admission is allowed.
C2_SequentialChecks ==
    /\ (Len(checkLog) >= 4 /\ checkLog[4].at < checkLog[1].at + ScenarioWindow) =>
            /\ \A i \in 1..3 : checkLog[i].ok
            /\ ~checkLog[4].ok
            /\ checkLog[4].retry_after > 0
    /\ \A i \in DOMAIN checkLog :
            (\A j \in 1..(i - 1) :
                checkLog[j].ok => checkLog[j].at + ScenarioWindow <= checkLog[i].at)
            => checkLog[i].ok

\* four checks inside one window, then a fifth, allowed, exactly one window
\* after the last admission
C2_Witness ==
    /\ Len(checkLog) = 5
    /\ checkLog[4].at < checkLog[1].at + ScenarioWindow
    /\ ~checkLog[4].ok
    /\ checkLog[3].at > checkLog[1].at
    /\ checkLog[5].at = checkLog[3].at + ScenarioWindow
    /\ checkLog[5].ok

\* a step is a call of enforce_rate_limit
IsEnforceStep == calls' = calls + 1 /\ last'.op = "enforce"

\* C4: fail-open.  A request that reaches enforce_rate_limit while the
\* limiter does not exist or is not initialized is allowed: it is neither
\* rejected nor failed, and no bucket is touched.
C4_FailOpen ==
    [][(IsEnforceStep /\ (rate_limiter = None \/ ~initialized)) =>
            /\ last'.outcome = "allow"
            /\ ~last'.acq.called
            /\ buckets' = buckets]_vars

\* two requests of one anonymous caller, both allowed, the limiter never
\* created (the anonymous limit of the model is one request per window)
C4_Witness ==
    /\ last.op = "enforce"
    /\ rate_limiter = None
    /\ calls = 2
    /\ last.req.authorization = None
    /\ last.outcome = "allow"

\* the session token of a request names a premium session that is stored
\* and not past its expiry
ValidPremium(req) ==
    /\ req.session \notin {None, ""}
    /\ req.session \in DOMAIN sessions
    /\ sessions[req.session].expires_at >= now

\* C6: tier resolution.  With the limiter initialized, a request whose
\* authorization header is "Bearer " and the configured master token is
\* admitted without any check; otherwise the tier checked is premium when
\* the session token has a valid premium session, else authenticated when
\* a device identifier is present, else anonymous.
C6_TierPrecedence ==
    [][(IsEnforceStep /\ rate_limiter # None /\ initialized) =>
        LET req == last'.req
        IN  IF api_token \notin {None, ""}
               /\ req.authorization = "Bearer " \o api_token
            THEN /\ last'.outcome = "allow"
                 /\ ~last'.checked /\ ~last'.acq.called
                 /\ buckets' = buckets
            ELSE /\ last'.checked /\ last'.acq.called
                 /\ last'.tier =
                        IF ValidPremium(req) THEN "premium"
                        ELSE IF req.device \notin {None, ""} THEN "authenticated"
                        ELSE "anonymous"]_vars

\* a request with a valid premium session and a device identifier, and a
\* bearer header that is not the master token, is checked as premium
C6_Witness ==
    /\ last.op = "enforce"
    /\ last.checked
    /\ last.tier = "premium"
    /\ last.req.device = "devA"
    /\ last.req.authorization = "Bearer wrong"
    /\ api_token = "s3cret"

C5_SessionLifetime ==
    [][(last'.op = "exists") =>
        LET tok    == last'.token
            expiry == addedAt[tok] + SessionTtlSec * TicksPerSec
        IN  /\ last'.found <=>
                    (tok # "" /\ tok \in DOMAIN addedAt /\ now <= expiry)
            /\ (tok # "" /\ tok \in DOMAIN addedAt /\ now > expiry) =>
                    tok \notin DOMAIN sessions']_vars

\* exists answers false for an added token past its expiry, and the entry
\* is gone from the map
C5_Witness ==
    /\ last.op = "exists"
    /\ last.token = "tokA"
    /\ ~last.found
    /\ "tokA" \in DOMAIN addedAt
    /\ now > addedAt["tokA"] + SessionTtlSec * TicksPerSec
    /\ "tokA" \notin DOMAIN sessions

(***************************************************************************)
(* C3: on the Redis backend the expiry of a counter is set only by the     *)
(* caller whose INCR returned 1, once, to one window from that command,    *)
(* and no later increment changes it; an acquire is rejected exactly when  *)
(* its post-increment count exceeds the limit, with retry_after =          *)
(* max(remaining TTL, 1); and whatever the interleaving of concurrent      *)
(* callers, at most limit acquires are admitted in one counter lifetime.   *)
(***************************************************************************)
C3_LifetimeBound ==
    \A k \in DOMAIN rhist :
        /\ rhist[k].admits <= rhist[k].limit
        /\ rhist[k].sets <= 1

C3_ExpiryOnlyByFirst ==
    \A k \in DOMAIN rkeys' :
        LET old == IF k \in DOMAIN rkeys THEN rkeys[k] ELSE NoKey
        IN  (rkeys'[k].has_ttl # old.has_ttl
                \/ rkeys'[k].expire_at # old.expire_at)
            => /\ ~old.has_ttl
               /\ last'.op = "expire"
               /\ last'.key = k
               /\ last'.counter = 1
               /\ rkeys'[k].has_ttl
               /\ \E p \in Procs :
                      /\ last'.proc = p
                      /\ rkeys'[k].expire_at =
                             now + local[p].window * TicksPerSec

C3_RejectIffOver ==
    \A p \in Procs :
        /\ (calls' = calls + 1 /\ last'.proc = p)
           => /\ local'[p].counter = RedisGet(local'[p].key).count + 1
              /\ local'[p].counter = rkeys'[local'[p].key].count
        /\ ((pc[p] # "idle" \/ calls' = calls + 1)
                /\ pc'[p] = "idle" /\ last'.proc = p)
           => /\ last'.done
              /\ (last'.outcome = "RateLimitExceeded")
                     <=> (local'[p].counter > local'[p].limit)
              /\ last'.outcome = "RateLimitExceeded"
                     => LET ttl == RedisTtlValue(local[p].key, now)
                        IN  /\ last'.retry_after =
                                   (IF ttl >= 1 THEN ttl ELSE 1)
                            /\ last'.retry_after >= 1

C3_FixedWindow ==
    []C3_LifetimeBound /\ [][C3_ExpiryOnlyByFirst /\ C3_RejectIffOver]_vars

\* a caller is rejected while the caller that created the counter has not
\* yet set its expiry: TTL answers -1 and the hint is 1 second
C3_Witness ==
    /\ last.op = "ttl"
    /\ last.outcome = "RateLimitExceeded"
    /\ last.ttl = -1
    /\ last.retry_after = 1
    /\ \E q \in Procs : pc[q] = "expire" /\ local[q].key = last.key

\* the call has been received and every requested identifier is configured
ValidRequest ==
    /\ chat_pc # "idle"
    /\ \A i \in 1..Len(req_models) : req_models[i] \in MODELS

(***************************************************************************)
(* C8: a valid request for N models is answered with exactly N entries;    *)
(* entry i is the result of the task of the i-th requested model and bears *)
(* its identifier, in whatever order the provider calls completed; every   *)
(* entry has a latency >= 0.                                               *)
(***************************************************************************)
C8_OrderedAggregate ==
    (chat_pc = "done" /\ ValidRequest) =>
        /\ response.status = 200
        /\ Len(response.responses) = Len(req_models)
        /\ \A i \in 1..Len(req_models) :
               /\ tasks[i].model = req_models[i]
               /\ response.responses[i] = tasks[i].result.entry
               /\ response.responses[i].model = req_models[i]
               /\ response.responses[i].latency_ms >= 0
        /\ response.total_latency_ms >= 0

\* deepseek was requested before gemini and completed after it
C8_Witness ==
    /\ chat_pc = "done"
    /\ response.status = 200
    /\ Len(req_models) >= 2
    /\ req_models[1] = "deepseek" /\ req_models[2] = "gemini"
    /\ completion[1] = 2
    /\ response.responses[1].error = None
    /\ response.responses[2].error = None

(***************************************************************************)
(* C9: when any requested identifier is missing from config.MODELS the     *)
(* call ends with status 400, the detail lists every unknown identifier    *)
(* (and only those), and no provider service is called for any requested   *)
(* model, the configured ones included.                                    *)
(***************************************************************************)
C9_RejectsUnknownModels ==
    (\E i \in 1..Len(req_models) : req_models[i] \notin MODELS) =>
        /\ chat_pc = "done"
        /\ response.status = 400
        /\ \A i \in 1..Len(req_models) :
               req_models[i] \notin MODELS =>
                   \E j \in 1..Len(response.invalid) :
                       response.invalid[j] = req_models[i]
        /\ \A j \in 1..Len(response.invalid) : response.invalid[j] \notin MODELS
        /\ response.detail =
               "Invalid model IDs: " \o Join(response.invalid, ", ")
        /\ tasks = <<>>
        /\ upstream = <<>>

\* a request mixing a configured identifier with two unknown ones
C9_Witness ==
    /\ chat_pc = "done"
    /\ response.status = 400
    /\ Len(req_models) = 3
    /\ \E i \in 1..3 : req_models[i] \in MODELS
    /\ Len(response.invalid) = 2
    /\ response.invalid[1] # response.invalid[2]
    /\ response.detail = "Invalid model IDs: unknown-model, cerebras-llama3.1-8b"

(***************************************************************************)
(* C10: in a valid dispatch the call never ends with an exception of a     *)
(* provider (status 500); the entry of a model whose provider call failed  *)
(* or raised has an error and an error code and no text, and the entry of  *)
(* every model whose call succeeded has the provider's text and no error.  *)
(***************************************************************************)
C10_Isolation ==
    /\ response.status # 500
    /\ (chat_pc = "done" /\ ValidRequest) =>
           /\ response.status = 200
           /\ \A i \in 1..Len(tasks) :
                  LET e == response.responses[i]
                  IN  IF tasks[i].outcome = "ok"
                      THEN /\ e.error = None
                           /\ e.error_code = None
                           /\ e.response = AnswerOf(req_models[i])
                      ELSE /\ e.error # None
                           /\ e.error_code # None
                           /\ e.response = ""

\* one provider call raised, another failed, a third succeeded
C10_Witness ==
    /\ chat_pc = "done"
    /\ response.status = 200
    /\ \E i, j, k \in 1..Len(tasks) :
           /\ tasks[i].outcome = "raised"
           /\ response.responses[i].error_code = "internal_error"
           /\ tasks[j].outcome = "http_503"
           /\ tasks[k].outcome = "ok"
           /\ response.responses[k].response = AnswerOf(req_models[k])

(***************************************************************************)
(* C11: in every aggregate response total_latency_ms is at least the       *)
(* latency_ms of each of its entries.                                      *)
(***************************************************************************)
C11_TotalCoversEntries ==
    response.status = 200 =>
        \A i \in 1..Len(response.responses) :
            response.total_latency_ms >= response.responses[i].latency_ms

\* an aggregate response with an entry that took time
C11_Witness ==
    /\ chat_pc = "done"
    /\ response.status = 200
    /\ Len(response.responses) >= 2
    /\ \E i \in 1..Len(response.responses) :
           response.responses[i].latency_ms > 0

(***************************************************************************)
(* C12: the fan-out is concurrent: whenever time passes while a dispatch   *)
(* awaits its provider calls, every call of the dispatch has been issued;  *)
(* no call's wait for its upstream keeps a sibling call from starting.     *)
(***************************************************************************)
C12_ConcurrentFanOut ==
    [][(chat_pc = "gather" /\ now' > now) =>
           \A j \in 1..Len(tasks) : tasks'[j].state # "pending"]_vars

\* the Gemini call has ended after keeping the event loop for a tick, and
\* the DeepSeek call requested with it has not been issued
C12_Blocked ==
    /\ chat_pc = "gather"
    /\ Len(tasks) = 2
    /\ tasks[1].model = "gemini" /\ tasks[1].state = "done"
    /\ tasks[1].result.entry.latency_ms > 0
    /\ tasks[2].model = "deepseek" /\ tasks[2].state = "pending"
    /\ upstream = <<"gemini">>

\* the kinds in the order of precedence
KindOrder ==
    <<"authentication_failed", "rate_limited", "quota_exceeded",
      "model_overloaded", "service_unavailable", "timeout",
      "content_filtered", "network_error">>

\* the groups of which a keyword occurs in the classified message
Matching ==
    {g \in 1..Len(KeywordGroups) :
         \E i \in 1..Len(error_msg), w \in KeywordGroups[g].keywords :
             Lower(error_msg[i]) = w}

(***************************************************************************)
(* C20: a classified message gets the kind of the first group, in the      *)
(* order authentication > rate-limit > quota > overload > unavailable >    *)
(* timeout > content-filter > network, of which a keyword occurs in it,    *)
(* and unknown_error when no group matches.                                *)
(***************************************************************************)
C20_FirstGroupWins ==
    error_kind # None =>
        IF Matching = {} THEN error_kind = "unknown_error"
        ELSE \E g \in Matching :
                 /\ \A h \in Matching : g <= h
                 /\ error_kind = KindOrder[g]

\* a message with keywords of two groups, the later group's keyword first
C20_Witness ==
    /\ Len(error_msg) = 2
    /\ error_msg[1] = "Timeout"
    /\ error_msg[2] = "exceeded"
    /\ error_kind = "quota_exceeded"

\* the transport-level failures after which a request may be re-attempted
TransportFailures ==
    {"ConnectError", "ConnectTimeout", "ReadTimeout", "PoolTimeout"}

\* the attempts that ended with an HTTP response, whatever its status
ResponseReceived(outcome) == outcome \in {"ok", "http_400", "http_503"}

(***************************************************************************)
(* C15: an attempt is followed by another only if it ended in a connection *)
(* error, connect timeout, read timeout or pool timeout; the attempt that  *)
(* receives an HTTP response, of any status, is the last one, its outcome  *)
(* is what the caller gets, and when it is the first attempt the caller    *)
(* gets it after exactly one attempt.                                      *)
(***************************************************************************)
C15_RetryOnlyTransport ==
    /\ \A i \in 1..(Len(attempt_log) - 1) :
           attempt_log[i] \in TransportFailures
    /\ \A i \in 1..Len(attempt_log) :
           ResponseReceived(attempt_log[i]) =>
               /\ i = Len(attempt_log)
               /\ retry_pc \in {"returned", "raised"}
               /\ retry_result.value = attempt_log[i]
               /\ retry_result.raised = (attempt_log[i] # "ok")
               /\ retry_result.attempts = i

\* a 503 received at the first attempt is raised at once
C15_Witness ==
    /\ attempt_log = <<"http_503">>
    /\ retry_pc = "raised"
    /\ retry_result.value = "http_503"
    /\ retry_result.attempts = 1

(***************************************************************************)
(* C16: a request is attempted at most max_attempts times; the first       *)
(* attempt that succeeds is the last; after max_attempts attempts the call *)
(* has ended, and a call that ends in failure raises the failure of its    *)
(* last attempt.                                                           *)
(***************************************************************************)
C16_BoundedAttempts ==
    /\ Len(attempt_log) <= 3
    /\ \A i \in 1..Len(attempt_log) :
           attempt_log[i] = "ok" =>
               i = Len(attempt_log) /\ retry_pc = "returned"
    /\ Len(attempt_log) = 3 => retry_pc \in {"returned", "raised"}
    /\ retry_pc = "raised" =>
           /\ retry_result.raised
           /\ retry_result.value = attempt_log[Len(attempt_log)]
           /\ retry_result.attempts = Len(attempt_log)
    /\ retry_pc = "sleep" => Len(retry_waits) = Len(attempt_log) - 1
    /\ \A i \in 1..Len(retry_waits) : retry_waits[i] >= 1 /\ retry_waits[i] <= 10

\* three transport failures in a row: the third is raised
C16_Witness ==
    /\ attempt_log = <<"ConnectError", "ReadTimeout", "PoolTimeout">>
    /\ retry_pc = "raised"
    /\ retry_result.value = "PoolTimeout"
    /\ retry_waits = <<1, 2>>

(***************************************************************************)
(* C13: generate() of every provider client never raises; on a missing     *)
(* key, an upstream error or a malformed upstream payload it returns a     *)
(* response whose error and error_code are set.                            *)
(***************************************************************************)
C13_ClientsNeverRaise ==
    client_call.made =>
        /\ ~client_call.result.raised
        /\ (~client_call.in.has_key \/ client_call.in.up.kind # "reply") =>
               /\ client_call.result.entry.error.some
               /\ client_call.result.entry.error_code # None

\* the Gemini client called without a key raises ValueError
C13_GeminiRaises ==
    /\ client_call.made
    /\ client_call.in.provider = "gemini"
    /\ ~client_call.in.has_key
    /\ client_call.result.raised
    /\ client_call.result.exc = "Gemini API key not configured"

(***************************************************************************)
(* C17: when the upstream reply says the output-token ceiling was hit, the *)
(* client returns the text produced so far followed by the truncation      *)
(* notice, with neither error nor error_code; on a normal stop it returns  *)
(* the text without the notice.                                            *)
(***************************************************************************)
C17_TruncationNotice ==
    (/\ client_call.made
     /\ client_call.in.has_key
     /\ client_call.in.up.kind = "reply"
     /\ client_call.in.up.finish \in {"max_tokens", "stop"}
     /\ client_call.in.up.finish = "stop" => client_call.in.up.text # "") =>
        /\ ~client_call.result.raised
        /\ ~client_call.result.entry.error.some
        /\ client_call.result.entry.error_code = None
        /\ client_call.result.entry.response =
               IF client_call.in.up.finish = "max_tokens"
               THEN client_call.in.up.text \o TruncationNotice
               ELSE client_call.in.up.text

\* Gemini reports MAX_TOKENS with no content parts and the client answers
\* with an error
C17_TruncationAsError ==
    /\ client_call.made
    /\ client_call.in.provider = "gemini"
    /\ client_call.in.has_key
    /\ client_call.in.up.kind = "reply"
    /\ client_call.in.up.finish = "max_tokens"
    /\ client_call.in.up.text = ""
    /\ client_call.result.entry.error.some
    /\ client_call.result.entry.error_code = "unknown_error"

(***************************************************************************)
(* C18: when the upstream reports a safety block (a reply stopped for      *)
(* safety, or a prompt refused), the client returns an error of kind       *)
(* content_filtered with empty response text, never partial text.          *)
(***************************************************************************)
C18_SafetyBlock ==
    (/\ client_call.made
     /\ client_call.in.has_key
     /\ \/ client_call.in.up.kind = "prompt_blocked"
        \/ client_call.in.up.kind = "reply"
               /\ client_call.in.up.finish = "safety") =>
        /\ ~client_call.result.raised
        /\ client_call.result.entry.error.some
        /\ client_call.result.entry.error_code = "content_filtered"
        /\ client_call.result.entry.response = ""

\* Gemini stops for safety after producing text and the client returns the
\* text as a success
C18_PartialTextReturned ==
    /\ client_call.made
    /\ client_call.in.provider = "gemini"
    /\ client_call.in.has_key
    /\ client_call.in.up.kind = "reply"
    /\ client_call.in.up.finish = "safety"
    /\ client_call.in.up.text = "abc"
    /\ client_call.result.entry.response = "abc"
    /\ ~client_call.result.entry.error.some

(***************************************************************************)
(* C19: a successful response has the token count the upstream reported,   *)
(* and len(text) // 4 of the returned text when the upstream reported no   *)
(* usage (0 for an empty text).                                            *)
(***************************************************************************)
C19_TokenCount ==
    (/\ client_call.made
     /\ ~client_call.result.raised
     /\ ~client_call.result.entry.error.some) =>
        client_call.result.entry.tokens =
            IF client_call.in.up.usage.some
            THEN client_call.in.up.usage
            ELSE SomeTokens(Len(client_call.result.entry.response) \div 4)

\* DeepSeek reports no usage and the client returns no token count
C19_NoEstimate ==
    /\ client_call.made
    /\ client_call.in.provider = "deepseek"
    /\ client_call.in.up.kind = "reply"
    /\ client_call.in.up.text = "abcdefghi"
    /\ ~client_call.in.up.usage.some
    /\ ~client_call.result.entry.error.some
    /\ client_call.result.entry.tokens = NoTokens

(***************************************************************************)
(* C14: a chat request rejected by the admission layer (401 for bearer     *)
(* credentials that are not the configured token, 429 for a rate limit     *)
(* exceeded) calls no provider service; the 429 response has a Retry-After *)
(* header whose value is the retry_after of the limiter, in seconds.       *)
(***************************************************************************)
\* the step of one request through the dependencies of POST /chat
IsChatRequest == calls' = calls + 1 /\ last'.op = "chat"

C14_RejectedBeforeUpstream ==
    /\ [](response.status \in {401, 429} =>
              /\ chat_pc = "done"
              /\ tasks = <<>>
              /\ upstream = <<>>)
    /\ [][IsChatRequest =>
              /\ (Truthy(api_token)
                    /\ last'.req.authorization \notin
                           {"Bearer " \o api_token, "bearer " \o api_token}) <=>
                     response'.status = 401
              /\ response'.status = 401 => buckets' = buckets
              /\ (last'.acq.called /\ ~last'.acq.ok) <=>
                     response'.status = 429
              /\ response'.status = 429 =>
                     /\ last'.acq.retry_after >= 1
                     /\ DOMAIN last'.headers = {"Retry-After"}
                     /\ \E n \in 1..(MaxTime + 1) :
                            /\ last'.headers["Retry-After"] = Str(n)
                            /\ n = last'.acq.retry_after
              /\ response'.status \in {401, 429} =>
                     /\ tasks' = <<>>
                     /\ upstream' = upstream]_vars

\* a second request turned down by the limiter, one second to wait
C14_Witness ==
    /\ response.status = 429
    /\ last.op = "chat"
    /\ last.headers["Retry-After"] = "1"
    /\ calls = 2
    /\ upstream = <<>>

\* a request turned down for its credentials while the limiter is running
C14_Unauthorized ==
    /\ response.status = 401
    /\ initialized
    /\ last.op = "chat"
    /\ last.req.authorization = "Bearer wrong"

(***************************************************************************)
(* C21: startup initializes the shared rate limiter and selects its        *)
(* backend; after startup every chat request without the master bearer     *)
(* token goes through RateLimiter.check before any provider is called.     *)
(***************************************************************************)
C21_StartupInitializesLimiter ==
    /\ [](app_state = "running" =>
              /\ rate_limiter # None
              /\ initialized
              /\ backend \in {"memory", "redis"})
    /\ [][(IsChatRequest /\ app_state = "running"
             /\ RequireApiToken(last'.req) = "pass"
             /\ ~MasterBypass(last'.req)) => last'.acq.called]_vars

\* a provider is called for a request that no limiter has seen
C21_Unchecked ==
    /\ app_state = "running"
    /\ rate_limiter = None
    /\ chat_pc = "gather"
    /\ upstream # <<>>
    /\ last.op = "chat"
    /\ last.req.authorization = None
    /\ ~last.acq.called

(***************************************************************************)
(* C22: once the rate limiter is initialized, a successful identity        *)
(* verification at POST /auth/apple registers a premium session for the    *)
(* session token it returns, with the validity in seconds; a later request *)
(* with that token in x-coro-session, before expiry, is limited under the  *)
(* premium tier.                                                           *)
(***************************************************************************)
IsAuthRequest == calls' = calls + 1 /\ last'.op = "auth"

C22_PremiumSessionGranted ==
    /\ [][(IsAuthRequest /\ AuthLimiterReady_Global
             /\ ~VerifyIdentityToken(last'.tok, last'.fetch).raised) =>
              /\ auth_response'.status = 200
              /\ auth_response'.session_token = last'.session_token
              /\ auth_response'.expires_in = SessionTtlSec
              /\ last'.session_token \in DOMAIN sessions'
              /\ sessions'[last'.session_token].expires_at =
                     now + SessionTtlSec * TicksPerSec]_vars
    /\ [][(IsEnforceStep /\ last'.checked /\ Truthy(last'.req.session)
             /\ last'.req.session \in DOMAIN sessions
             /\ ~SessionExpired(sessions[last'.req.session].expires_at, now)) =>
              last'.tier = "premium"]_vars

\* the endpoint answers 503 although the limiter is initialized
C22_Unavailable ==
    /\ auth_response.status = 503
    /\ rate_limiter # None
    /\ initialized
    /\ last.op = "auth"
    /\ last.was_ready
    /\ last.tok = "valid"

(***************************************************************************)
(* C24: a failed identity verification is opaque: whichever step fails,    *)
(* the verifier raises the one verification error and the caller gets the  *)
(* same response.                                                          *)
(***************************************************************************)
C24_OpaqueFailure ==
    \A a \in auth_log, b \in auth_log :
        /\ a.exc = "AppleSignInError"
        /\ a.status = b.status
        /\ a.detail = b.detail

\* two failures told apart by the detail of their 400 responses
C24_Leak ==
    \E a \in auth_log, b \in auth_log :
        /\ a.step = "header" /\ b.step = "decode"
        /\ a.status = 400 /\ b.status = 400
        /\ a.detail # b.detail

(***************************************************************************)
(* C23: a premium session is never changed after its creation: as long as  *)
(* a token is stored, its subject and its expiry stay what add(token,      *)
(* subject) made them, whatever is called, add with the same token         *)
(* included.                                                               *)
(***************************************************************************)
C23_SessionImmutable ==
    [][\A token \in (DOMAIN sessions) \cap (DOMAIN sessions') :
           sessions'[token] = sessions[token]]_vars

\* add(token, subject) on a stored token gave it another subject and a
\* later expiry
C23_Overwritten ==
    /\ last.op = "register"
    /\ last.outcome = "ok"
    /\ last.stored
    /\ sessions[last.token].user_id # last.previous.user_id
    /\ sessions[last.token].expires_at > last.previous.expires_at

(***************************************************************************)
(* C25: every entry of the aggregate that reports an error carries the     *)
(* latency measured for its call, from the start of the call to the point  *)
(* the failure was finalized, as a success does; no error path puts a      *)
(* placeholder in the place of the measurement.                            *)
(***************************************************************************)
C25_ErrorLatencyMeasured ==
    [][\A i \in 1..Len(tasks') :
           (/\ i \in 1..Len(tasks)
            /\ tasks[i].state # "done"
            /\ tasks'[i].state = "done"
            /\ tasks'[i].result.entry.error # None) =>
               /\ tasks'[i].outcome # "raised"
               /\ tasks'[i].result.entry.latency_ms =
                      LatencyMs(tasks'[i].started, now')]_vars

\* an aggregate with a measured failure beside one that has the latency 0
\* of the except clause of _generate_for_model
C25_Placeholder ==
    /\ response.status = 200
    /\ \E i \in 1..Len(tasks), j \in 1..Len(tasks) :
           /\ tasks[i].outcome = "raised"
           /\ response.responses[i].model = "gemini"
           /\ response.responses[i].error_code = "internal_error"
           /\ response.responses[i].latency_ms = 0
           /\ tasks[j].outcome = "http_503"
           /\ response.responses[j].latency_ms > 0

(***************************************************************************)
(* C26: when the sliding-window backend rejects an acquire, the retry hint *)
(* is (oldest remaining timestamp + window - now) rounded up to whole      *)
(* seconds, and at least 1; a difference of exactly k seconds gives k.     *)
(***************************************************************************)
\* the ticks until the oldest timestamp left in the bucket leaves the window
TicksToWait(acq) ==
    Head(buckets[acq.key]) + acq.window * TicksPerSec - now

\* ticks rounded up to whole seconds
CeilSeconds(ticks) == (ticks + TicksPerSec - 1) \div TicksPerSec

C26_RetryHintRoundedUp ==
    (last.op = "check" /\ last.acq.called /\ ~last.acq.ok) =>
        /\ last.acq.retry_after >= 1
        /\ last.acq.retry_after = Max(CeilSeconds(TicksToWait(last.acq)), 1)

\* a rejection a whole number of seconds before the slot frees, with a hint
\* one second longer
C26_OneSecondMore ==
    /\ last.op = "check"
    /\ last.acq.called
    /\ ~last.acq.ok
    /\ TicksToWait(last.acq) % TicksPerSec = 0
    /\ last.acq.retry_after = TicksToWait(last.acq) \div TicksPerSec + 1

(***************************************************************************)
(* C27: fixed-window backend: for one key, the acquisitions admitted       *)
(* within any time interval as long as the window never number more than   *)
(* twice the limit (they may number more than the limit around the expiry  *)
(* of a counter).                                                          *)
(***************************************************************************)
\* the admissions for the key of admission i in the interval of one window
\* that ends with it
AdmittedUpTo(i) ==
    {j \in DOMAIN admitted :
        /\ admitted[j].key = admitted[i].key
        /\ admitted[j].at >= admitted[i].at - admitted[i].window * TicksPerSec
        /\ admitted[j].at <= admitted[i].at}

C27_TwiceTheLimit ==
    backend = "redis" =>
        \A i \in DOMAIN admitted :
            Cardinality(AdmittedUpTo(i)) <= 2 * admitted[i].limit

\* more admissions than the limit within one window, on both sides of the
\* expiry of the counter
C27_Witness ==
    /\ backend = "redis"
    /\ \E i \in DOMAIN admitted :
           /\ Cardinality(AdmittedUpTo(i)) > admitted[i].limit
           /\ Cardinality(AdmittedUpTo(i)) = 2 * admitted[i].limit

(***************************************************************************)
(* C28: the backend is chosen once: after initialize has completed, no     *)
(* call of check, is_premium / exists, register_premium_session or         *)
(* initialize replaces the backend or the session store; initialize on an  *)
(* initialized limiter changes nothing, counters and sessions included.    *)
(***************************************************************************)
C28_BackendChosenOnce ==
    [][(/\ rate_limiter # None
        /\ initialized
        /\ last'.op \in {"check", "exists", "register", "initialize"}) =>
           /\ backend' = backend
           /\ store' = store
           /\ initialized'
           /\ last'.op = "initialize" =>
                  /\ last'.was_initialized
                  /\ buckets' = buckets
                  /\ sessions' = sessions
                  /\ admitted' = admitted
           /\ last'.op = "check" =>
                  /\ sessions' = sessions
                  /\ \A k \in DOMAIN buckets :
                         /\ k \in DOMAIN buckets'
                         /\ k # last'.acq.key => buckets'[k] = buckets[k]
           /\ last'.op \in {"exists", "register"} =>
                  /\ buckets' = buckets
                  /\ \A t \in DOMAIN sessions :
                         t # last'.token => /\ t \in DOMAIN sessions'
                                            /\ sessions'[t] = sessions[t]]_vars

\* initialize was called again on a limiter that holds a counter and a
\* session, and both are still there
C28_Witness ==
    /\ last.op = "initialize"
    /\ last.was_initialized
    /\ initialized
    /\ backend = "memory"
    /\ \E k \in DOMAIN buckets : buckets[k] # <<>>
    /\ DOMAIN sessions # {}

(***************************************************************************)
(* C29: every HTTP request of a provider service goes through the one      *)
(* shared pooled client: between startup and shutdown at most one client   *)
(* is open, get_http_client returns the same instance until it is closed,  *)
(* and no provider call makes a client of its own.                         *)
(***************************************************************************)
\* the clients open: the shared one and those the services made
OpenClients ==
    (IF http_client.some /\ ~http_client.is_closed THEN 1 ELSE 0)
        + own_transports

C29_OneSharedTransport ==
    /\ [](app_state = "running" => OpenClients <= 1)
    /\ [][(http_client.some /\ ~http_client.is_closed /\ http_client'.some) =>
              http_client'.id = http_client.id]_vars
    /\ [][last_post' # last_post =>
              /\ last_post'.transport = "shared"
              /\ http_client'.some
              /\ last_post'.id = http_client'.id]_vars

\* a Cerebras request in flight on a client of its own while the shared
\* client is open
C29_OwnTransport ==
    /\ app_state = "running"
    /\ http_client.some
    /\ own_transports >= 1
    /\ last_post.provider = "cerebras"
    /\ last_post.transport = "own"

(***************************************************************************)
(* C30: the system prompt composed for the call is delivered to the        *)
(* provider client of every requested model, whichever provider serves it: *)
(* a requested model of the registry whose upstream call would succeed     *)
(* yields a successful entry, with or without guidance and search          *)
(* findings.                                                               *)
(***************************************************************************)
\* the provider of task i would answer: the call made ended well, or the
\* model is served by Groq, whose upstream the model never lets fail
UpstreamWouldSucceed(i) ==
    \/ tasks[i].model \in GroqModels
    \/ tasks[i].outcome = "ok"

C30_PromptReachesEveryProvider ==
    response.status = 200 =>
        \A i \in 1..Len(tasks) :
            UpstreamWouldSucceed(i) =>
                /\ response.responses[i].error = None
                /\ response.responses[i].response = AnswerOf(tasks[i].model)

\* a call answered by DeepSeek while the Groq model beside it failed on the
\* keyword system_prompt
C30_GroqRejectsPrompt ==
    /\ response.status = 200
    /\ \E i \in 1..Len(tasks), j \in 1..Len(tasks) :
           /\ tasks[i].model = "deepseek"
           /\ response.responses[i].error = None
           /\ tasks[j].model \in GroqModels
           /\ response.responses[j].error_code = "internal_error"
           /\ response.responses[j].error =
                  "Unexpected error: GroqService.generate() got an unexpected keyword argument 'system_prompt'"

(***************************************************************************)
(* C36: in every reachable state of the sliding-window backend the         *)
(* timestamps of each bucket are in non-decreasing order, oldest first,    *)
(* whatever the order in which the concurrent acquire calls run; and the   *)
(* pruning from the head removes exactly the timestamps at or before       *)
(* now - window.                                                           *)
(***************************************************************************)
\* a list of timestamps in non-decreasing order
Sorted(bucket) ==
    \A i \in 1..(Len(bucket) - 1) : bucket[i] <= bucket[i + 1]

\* the timestamps of a list newer than a threshold, in their order
NewerThan(bucket, threshold) ==
    SelectSeq(bucket, LAMBDA ts : ts > threshold)

C36_EveryBucketSorted == \A k \in DOMAIN buckets : Sorted(buckets[k])

C36_PrunedExactly ==
    (calls' = calls + 1 /\ last'.op = "check" /\ last'.acq.called) =>
        LET acq  == last'.acq
            kept == NewerThan(BucketOf(acq.key), now - acq.window * TicksPerSec)
        IN  buckets'[acq.key] = IF acq.ok THEN Append(kept, now) ELSE kept

C36_SortedBuckets == []C36_EveryBucketSorted /\ [][C36_PrunedExactly]_vars

\* an admitted call that pruned an older admission of its key and left a
\* bucket of two timestamps taken at different times
C36_Witness ==
    /\ last.op = "check"
    /\ last.acq.called /\ last.acq.ok
    /\ Len(buckets[last.acq.key]) = 2
    /\ buckets[last.acq.key][1] < buckets[last.acq.key][2]
    /\ \E j \in DOMAIN admitted :
           /\ admitted[j].key = last.acq.key
           /\ admitted[j].at < buckets[last.acq.key][1]

(***************************************************************************)
(* C38: sliding-window backend: a rejected acquire records no timestamp    *)
(* (it consumes no quota and does not postpone the re-admission), and      *)
(* every acquire, admitted or rejected, leaves the buckets of all other    *)
(* keys unchanged.                                                         *)
(***************************************************************************)
C38_RejectedRecordsNothing ==
    (calls' = calls + 1 /\ last'.op = "check" /\ last'.acq.called
        /\ ~last'.acq.ok) =>
        LET acq == last'.acq
            thr == now - acq.window * TicksPerSec
        IN  /\ NewerThan(buckets'[acq.key], thr)
                   = NewerThan(BucketOf(acq.key), thr)
            /\ Len(buckets'[acq.key]) <= Len(BucketOf(acq.key))
            /\ admitted' = admitted
            /\ \A t \in now..(MaxTime + acq.window * TicksPerSec) :
                   InMemoryAcquire(buckets', acq.key, acq.limit, acq.window, t).ok
                       = InMemoryAcquire(buckets, acq.key, acq.limit,
                                         acq.window, t).ok

C38_OtherKeysUnchanged ==
    (calls' = calls + 1 /\ last'.op = "check" /\ last'.acq.called) =>
        \A k \in (DOMAIN buckets \cup DOMAIN buckets') \ {last'.acq.key} :
            /\ k \in DOMAIN buckets
            /\ k \in DOMAIN buckets'
            /\ buckets'[k] = buckets[k]

C38_RejectionFrame ==
    [][C38_RejectedRecordsNothing /\ C38_OtherKeysUnchanged]_vars

\* a rejected call on one key while another key holds a timestamp
C38_Witness ==
    /\ last.op = "check"
    /\ last.acq.called /\ ~last.acq.ok
    /\ \E k \in DOMAIN buckets : k # last.acq.key /\ buckets[k] # <<>>
    /\ Len(buckets[last.acq.key]) = last.acq.limit

(***************************************************************************)
(* C37: sliding-window backend: a caller rejected with retry hint r who    *)
(* checks again r seconds later, no other acquire on the same key having   *)
(* been made in between, is admitted.                                      *)
(***************************************************************************)
\* check j is the first check of the key of check i made after it
NextOnSameKey(i, j) ==
    /\ i < j
    /\ checkLog[j].tier = checkLog[i].tier
    /\ \A k \in (i + 1)..(j - 1) : checkLog[k].tier # checkLog[i].tier

C37_RetryAfterHintAdmitted ==
    \A i, j \in DOMAIN checkLog :
        (/\ NextOnSameKey(i, j)
         /\ ~checkLog[i].ok
         /\ checkLog[j].at = checkLog[i].at + checkLog[i].retry_after * TicksPerSec)
        => checkLog[j].ok

\* a bucket of two timestamps taken at different times, a rejection, and the
\* next check of the key, made as many seconds later as the hint said,
\* admitted by the same backend
C37_Witness ==
    \E i, j \in DOMAIN checkLog :
        /\ NextOnSameKey(i, j)
        /\ ~checkLog[i].ok
        /\ checkLog[i].tier = "authenticated"
        /\ checkLog[j].at = checkLog[i].at + checkLog[i].retry_after * TicksPerSec
        /\ checkLog[j].ok
        /\ \E a, b \in DOMAIN admitted :
               /\ a < b
               /\ admitted[a].key = BucketKey("authenticated", "caller")
               /\ admitted[b].key = BucketKey("authenticated", "caller")
               /\ admitted[a].at < admitted[b].at
               /\ admitted[b].at <= checkLog[i].at

(***************************************************************************)
(* C39: two requests from the same network address, with the same or no    *)
(* device identifier, whose session tokens differ and are both not valid   *)
(* premium sessions, are checked in the same rate-limit bucket: changing   *)
(* an invalid session token gives no fresh quota.                          *)
(***************************************************************************)
C39_InvalidSessionsShareBucket ==
    LimiterReady =>
        \A r1, r2 \in ForgedRequests :
            (/\ r1.host = r2.host
             /\ r1.device = r2.device
             /\ r1.session # r2.session
             /\ ~ValidPremium(r1)
             /\ ~ValidPremium(r2))
            => EnforceResult(r1).acq.key = EnforceResult(r2).acq.key

\* two requests of one host without device identifier, made at the same
\* time with two tokens never issued, both admitted by the anonymous tier,
\* whose limit is one request per window
C39_FreshQuota ==
    /\ last.op = "enforce"
    /\ last.checked
    /\ last.outcome = "allow"
    /\ last.tier = "anonymous"
    /\ last.req.session = "tokB"
    /\ last.req.device = None
    /\ DOMAIN sessions = {}
    /\ TierConfig("anonymous").limit = 1
    /\ Len(admitted) = 2
    /\ admitted[1].key = BucketKey("anonymous", "tokC")
    /\ admitted[2].key = BucketKey("anonymous", "tokB")
    /\ admitted[1].at = admitted[2].at

(***************************************************************************)
(* C40: with a master API token configured, every chat request that passes *)
(* the bearer authentication is admitted without a rate-limit check and    *)
(* without a change of any counter, and a request the bearer               *)
(* authentication rejects consumes no quota either: rate limiting applies  *)
(* to requests only when no master token is configured.                    *)
(***************************************************************************)
C40_MasterTokenExempts ==
    [][(IsChatRequest /\ Truthy(api_token)) =>
            /\ ~last'.acq.called
            /\ buckets' = buckets
            /\ admitted' = admitted
            /\ response'.status # 429]_vars

\* the token sent with the scheme in lower case: the request passes the
\* authentication and is turned down by the limiter
C40_LowerCaseSchemeLimited ==
    /\ last.op = "chat"
    /\ api_token = "s3cret"
    /\ last.req.authorization = "bearer s3cret"
    /\ RequireApiToken(last.req) = "pass"
    /\ last.admission = "429"
    /\ response.status = 429

(***************************************************************************)
(* C31: when the request supplies a credential override for a model, the   *)
(* upstream call for that model uses the override instead of the           *)
(* configured default, for every provider; a model without an override     *)
(* uses the default credential.                                            *)
(***************************************************************************)
C31_OverrideCredentialUsed ==
    client_call.made =>
        LET supplied == client_call.in.api_key_override
            expected == IF supplied # None THEN supplied
                        ELSE client_call.in.default_key
        IN  expected # None =>
                /\ client_call.request.sent
                /\ client_call.request.credential = expected

\* a Cerebras model with an override in the request: the upstream call is
\* made with the configured key
C31_CerebrasIgnoresOverride ==
    /\ client_call.made
    /\ client_call.in.provider = "cerebras"
    /\ client_call.in.api_key_override = "req-key"
    /\ client_call.in.default_key = "cfg-key"
    /\ client_call.request.sent
    /\ client_call.request.credential = "cfg-key"

(***************************************************************************)
(* C32: the message list a provider client sends upstream is the system /  *)
(* guidance message first when there is one, then every history message in *)
(* its original order, oldest first, with its role kept, then the current  *)
(* prompt as the last user message; nothing is reordered or dropped.       *)
(***************************************************************************)
\* the list the sentence describes
ExpectedMessages(in) ==
    (IF in.system_prompt # None
     THEN <<[role |-> "system", content |-> in.system_prompt]>>
     ELSE <<>>)
        \o in.history
        \o <<[role |-> "user", content |-> CurrentPrompt]>>

\* a message as a paragraph of the one text the Gemini SDK is given
Paragraph(msg) ==
    CASE msg.role = "system" -> msg.content
      [] msg.role = "user" -> "User: " \o msg.content
      [] msg.role = "assistant" -> "Assistant: " \o msg.content

C33_EmptyTextOnlyWithError ==
    (client_call.made /\ ~client_call.result.raised
        /\ ~client_call.result.entry.error.some) =>
        client_call.result.entry.response # ""

\* DeepSeek answers 200 with an empty content: the entry has neither text
\* nor error
C33_EmptyAnswerNoError ==
    /\ client_call.made
    /\ client_call.in.provider = "deepseek"
    /\ client_call.in.up.kind = "reply"
    /\ client_call.in.up.finish = "stop"
    /\ client_call.in.up.text = ""
    /\ ~client_call.result.raised
    /\ ~client_call.result.entry.error.some
    /\ client_call.result.entry.error_code = None
    /\ client_call.result.entry.response = ""

(***************************************************************************)
(* C34: if every attempt sent upstream eventually returns a response or    *)
(* fails (a timeout included), every provider call of a dispatch           *)
(* eventually resolves to a response entry and the dispatch eventually     *)
(* returns its aggregate response; the timeout or failure of one call      *)
(* never cancels a sibling call.                                           *)
(***************************************************************************)
\* task i has ended with a response entry
Resolved(i) ==
    /\ i \in DOMAIN tasks
    /\ tasks[i].state = "done"
    /\ ~tasks[i].result.raised
    /\ tasks[i].result.entry.model = tasks[i].model

\* a step changes the task of one call at most
OneCallPerStep ==
    \A i, j \in 1..MaxModels :
        (/\ i # j
         /\ i \in DOMAIN tasks /\ j \in DOMAIN tasks
         /\ DOMAIN tasks' = DOMAIN tasks
         /\ tasks'[i] # tasks[i])
        => tasks'[j] = tasks[j]

C34_EveryCallResolves ==
    /\ \A i \in 1..MaxModels : (i \in DOMAIN tasks) ~> Resolved(i)
    /\ (chat_pc = "gather") ~>
           (/\ chat_pc = "done"
            /\ response.status = 200
            /\ Len(response.responses) = Len(tasks)
            /\ \A i \in DOMAIN tasks :
                   Resolved(i) /\ response.responses[i] = tasks[i].result.entry)
    /\ [][OneCallPerStep]_vars

\* a DeepSeek call that failed after its last attempt, and a sibling that
\* was answered after that failure, both in the aggregate response
C34_Witness ==
    /\ chat_pc = "done"
    /\ response.status = 200
    /\ Len(tasks) = 2
    /\ tasks[1].attempts = MAX_ATTEMPTS
    /\ tasks[1].outcome = "ConnectError"
    /\ response.responses[1].error_code = "network_error"
    /\ tasks[2].outcome = "ok"
    /\ response.responses[2].error = None
    /\ completion = <<1, 2>>

(***************************************************************************)
(* C35: system-prompt composition.  With neither guidance text (after      *)
(* trimming) nor any search finding, no system prompt is produced;         *)
(* otherwise the prompt is the fixed framing sentence, then the guidance   *)
(* text if there is one, then the findings labelled [S1], [S2], ... in the *)
(* order of the input, each with its title, snippet and source URL, and    *)
(* after them the citation instruction.                                    *)
(***************************************************************************)
\* a text from its first to its last piece that is not a blank
Core(text) ==
    LET solid == {i \in 1..Len(text) : text[i] \notin Blank}
    IN  IF solid = {} THEN <<>>
        ELSE SubSeq(text, CHOOSE i \in solid : \A j \in solid : i <= j,
                          CHOOSE i \in solid : \A j \in solid : i >= j)

\* the pieces of the finding labelled k, in a prompt p, from position at
FindingAt(p, at, k, result) ==
    /\ at + 5 + Len(Core(result.title)) + Len(Core(result.snippet))
           + Len(Core(result.url)) <= Len(p) + 1
    /\ SubSeq(p, at, at + 2) = <<"[S", Str(k), "] ">>
    /\ LET t == at + 3
           n == t + Len(Core(result.title))
           u == n + 1 + Len(Core(result.snippet))
       IN  /\ SubSeq(p, t, n - 1) = Core(result.title)
           /\ p[n] = "\n"
           /\ SubSeq(p, n + 1, u - 1) = Core(result.snippet)
           /\ p[u] = "\nSource: "
           /\ SubSeq(p, u + 1, u + Len(Core(result.url))) = Core(result.url)

\* the length of a finding in the prompt
FindingLen(result) ==
    5 + Len(Core(result.title)) + Len(Core(result.snippet))
      + Len(Core(result.url))

\* the position of finding k, the first one being at position first
RECURSIVE FindingStart(_, _, _)
FindingStart(results, first, k) ==
    IF k = 1 THEN first
    ELSE FindingStart(results, first, k - 1)
             + FindingLen(results[k - 1]) + 1

C35_SystemPromptComposition ==
    last.op = "compose" =>
        LET words    == IF last.guide.some THEN Core(last.guide.text) ELSE <<>>
            results  == IF last.search_context.some
                        THEN last.search_context.results ELSE <<>>
            query    == Core(last.search_context.query)
            p        == last.system_prompt.text
            guided   == IF words # <<>> THEN 1 + Len(words) ELSE 0
            heading  == IF query # <<>> THEN 2 + Len(query) ELSE 1
            search   == 3 + guided + (IF words # <<>> THEN 1 ELSE 0)
            first    == search + heading
        IN  IF words = <<>> /\ results = <<>>
            THEN ~last.system_prompt.some
            ELSE /\ last.system_prompt.some
                 /\ p[1] = Framing
                 /\ p[2] = "\n\n"
                 /\ words # <<>> =>
                        /\ p[3] = "Conversation Guide:\n"
                        /\ SubSeq(p, 4, 3 + Len(words)) = words
                 /\ results = <<>> => Len(p) = 2 + guided
                 /\ results # <<>> =>
                        /\ words # <<>> => p[search - 1] = "\n\n"
                        /\ IF query # <<>>
                           THEN SubSeq(p, search + 1, search + Len(query)) = query
                           ELSE p[search] = "Web Search Findings:\n"
                        /\ \A k \in 1..Len(results) :
                               FindingAt(p, FindingStart(results, first, k),
                                         k, results[k])
                        /\ \A k \in 1..(Len(results) - 1) :
                               p[FindingStart(results, first, k + 1) - 1]
                                   = "\n\n"
                        /\ p[Len(p)] = CitationInstruction
                        /\ Len(p) = FindingStart(results, first, Len(results))
                                      + FindingLen(results[Len(results)])
                 /\ \A i \in 1..Len(p) :
                        p[i] = "[S" => \E k \in 1..Len(results) :
                                           i = FindingStart(results, first, k)

\* guidance with blanks around it and two findings, the second before the
\* first of the set, under a query
C35_Witness ==
    /\ last.op = "compose"
    /\ last.guide.text = <<" ", "be", " ", "brief", "\n">>
    /\ last.search_context.some
    /\ Len(last.search_context.results) = 2
    /\ last.search_context.results[1].title = <<" ", "T2">>
    /\ last.search_context.results[2].title = <<"T1">>
    /\ last.search_context.query = <<" ", "cats", " ">>
    /\ last.system_prompt.some
    /\ last.system_prompt.text[3] = "Conversation Guide:\n"

====
